---- MODULE Spec2Model ----
(***************************************************************************)
(* Model of compiler/phpdoc.cpp of KPHP: the phpdoc tag extractor          *)
(* (parse_php_doc), the tag-value tokenizer (php_doc_tag::get_value_token),*)
(* the lookups find_tag_in_phpdoc / is_tag_in_phpdoc and the recursive     *)
(* descent type-rule parser (PhpDocTypeRuleParser).                        *)
(*                                                                         *)
(* A std::string / vk::string_view is a sequence of one-character strings. *)
(* Positions are 0-based as in the source; At(s, i) reads s[i].            *)
(***************************************************************************)
EXTENDS Integers, Sequences, FiniteSets, TLC

VARIABLES
  phpdoc,        \* the comment body handed to the extractor and the lookups
  doc_type,      \* the kind last requested from find_tag_in_phpdoc / is_tag_in_phpdoc
  offset,        \* the occurrence index last requested from find_tag_in_phpdoc
  stage_line,    \* stage::get_line(): line of the annotated declaration
  type_str,      \* the type text handed to parse_from_type_string
  class_table,   \* G->get_class: registered class name -> is_trait
  class_id,      \* current_function->class_id, the class `self` stands for
  pc,            \* the function called last ("start" before any call)
  tags,          \* what parse_php_doc returned
  found,         \* what find_tag_in_phpdoc / is_tag_in_phpdoc returned
  out_var_name,  \* out parameter of find_tag_in_phpdoc
  out_type_str,  \* out parameter of find_tag_in_phpdoc
  res,           \* what parse_from_type_string / phpdoc_parse_type returned
  errors,        \* the diagnostics the call raised through kphp_error
  callers        \* the call frames of the callers that run side by side

vars == <<phpdoc, doc_type, offset, stage_line, type_str, class_table, class_id,
          pc, tags, found, out_var_name, out_type_str, res, errors, callers>>

inputs == <<phpdoc, doc_type, offset, stage_line, type_str, class_table, class_id>>

-----------------------------------------------------------------------------
(* std::string helpers *)

Npos == -1

At(s, i) == s[i + 1]

Min(a, b) == IF a < b THEN a ELSE b

\* std::string::substr(pos, n), n clipped to the end of the string
Substr(s, pos, n) == SubSeq(s, pos + 1, pos + Min(n, Len(s) - pos))

\* std::string::substr(pos)
SubstrFrom(s, pos) == SubSeq(s, pos + 1, Len(s))

\* std::string::find(ch, from)
RECURSIVE Find(_, _, _)
Find(s, ch, from) ==
  IF from >= Len(s) THEN Npos
  ELSE IF At(s, from) = ch THEN from
  ELSE Find(s, ch, from + 1)

RECURSIVE Concat(_)
Concat(ss) == IF ss = <<>> THEN <<>> ELSE Head(ss) \o Concat(Tail(ss))

-----------------------------------------------------------------------------
(* php_doc_tag *)

str2doc_type == {
    <<<<"@", "p", "a", "r", "a", "m">>, "param">>,
    <<<<"@", "k", "p", "h", "p", "-", "i", "n", "l", "i", "n", "e">>, "kphp_inline">>,
    <<<<"@", "k", "p", "h", "p", "-", "i", "n", "f", "e", "r">>, "kphp_infer">>,
    <<<<"@", "k", "p", "h", "p", "-", "r", "e", "q", "u", "i", "r", "e", "d">>, "kphp_required">>,
    <<<<"@", "k", "p", "h", "p", "-", "l", "i", "b", "-", "e", "x", "p", "o", "r", "t">>, "kphp_lib_export">>,
    <<<<"@", "k", "p", "h", "p", "-", "s", "y", "n", "c">>, "kphp_sync">>,
    <<<<"@", "t", "y", "p", "e">>, "var">>,
    <<<<"@", "v", "a", "r">>, "var">>,
    <<<<"@", "r", "e", "t", "u", "r", "n">>, "returns">>,
    <<<<"@", "r", "e", "t", "u", "r", "n", "s">>, "returns">>,
    <<<<"@", "k", "p", "h", "p", "-", "d", "i", "s", "a", "b", "l", "e", "-", "w", "a", "r", "n", "i", "n", "g", "s">>, "kphp_disable_warnings">>,
    <<<<"@", "k", "p", "h", "p", "-", "e", "x", "t", "e", "r", "n", "-", "f", "u", "n", "c", "-", "i", "n", "f", "o">>, "kphp_extern_func_info">>,
    <<<<"@", "k", "p", "h", "p", "-", "p", "u", "r", "e", "-", "f", "u", "n", "c", "t", "i", "o", "n">>, "kphp_pure_function">>,
    <<<<"@", "k", "p", "h", "p", "-", "t", "e", "m", "p", "l", "a", "t", "e">>, "kphp_template">>,
    <<<<"@", "k", "p", "h", "p", "-", "r", "e", "t", "u", "r", "n">>, "kphp_return">>,
    <<<<"@", "k", "p", "h", "p", "-", "m", "e", "m", "c", "a", "c", "h", "e", "-", "c", "l", "a", "s", "s">>, "kphp_memcache_class">>,
    <<<<"@", "k", "p", "h", "p", "-", "i", "m", "m", "u", "t", "a", "b", "l", "e", "-", "c", "l", "a", "s", "s">>, "kphp_immutable_class">>,
    <<<<"@", "k", "p", "h", "p", "-", "t", "l", "-", "c", "l", "a", "s", "s">>, "kphp_tl_class">>,
    <<<<"@", "k", "p", "h", "p", "-", "c", "o", "n", "s", "t">>, "kphp_const">> }

\* php_doc_tag::get_doc_type: exact lookup of the name, unknown when absent
get_doc_type(name) ==
  IF \E e \in str2doc_type : e[1] = name
  THEN (CHOOSE e \in str2doc_type : e[1] = name)[2]
  ELSE "unknown"

\* line_num of a tag that was given none
NoLine == -1

\* php_doc_tag(): a default-constructed tag
php_doc_tag == [name |-> <<>>, type |-> "unknown", value |-> <<>>, line_num |-> NoLine]

RECURSIVE SkipSpaces(_, _)
SkipSpaces(value, pos) ==
  IF pos < Len(value) /\ At(value, pos) = " " THEN SkipSpaces(value, pos + 1) ELSE pos

varg_dots_dollar == <<" ", ".", ".", ".", "$">>

\* a token end that leaves the dots of a variadic marker to the next token
TokenEnd_AtSpace(value, pos) == pos

\* the position at which the token found by get_value_token ends
TokenEnd(value, pos) ==
  IF Len(value) > pos + Len(varg_dots_dollar)
     /\ Substr(value, pos, Len(varg_dots_dollar)) = varg_dots_dollar
  THEN pos + Len(varg_dots_dollar) - 1
  ELSE pos

\* a tokenizer that does not stop at the space behind the token
get_value_token_ToEnd(value, chars_offset) ==
  LET off2 == SkipSpaces(value, chars_offset + SkipSpaces(value, 0))
  IN  IF off2 >= Len(value) THEN <<>> ELSE SubstrFrom(value, off2)

get_value_token(value, chars_offset) ==
  LET len  == Len(value)
      off1 == chars_offset + SkipSpaces(value, 0)
      off2 == SkipSpaces(value, off1)
      pos  == Find(value, " ", off2)
  IN  IF off2 >= len THEN <<>>
      ELSE IF pos = Npos THEN SubstrFrom(value, off2)
      ELSE Substr(value, off2, TokenEnd(value, pos) - off2)

-----------------------------------------------------------------------------
(* parse_php_doc *)

\* blanks that take in the newline
IsBlank_WithNewline(c) == c = " " \/ c = "\t" \/ c = "\n"

IsBlank(c) == c = " " \/ c = "\t"

\* the character loop: the logical lines, or failure on a stray character
RECURSIVE ScanLines(_, _, _, _)
ScanLines(doc, i, lines, have_star) ==
  IF i >= Len(doc) THEN [ok |-> TRUE, lines |-> lines]
  ELSE LET c == At(doc, i)
           n == Len(lines)
       IN  IF ~have_star
           THEN IF IsBlank(c) THEN ScanLines(doc, i + 1, lines, FALSE)
                ELSE IF c = "*" THEN ScanLines(doc, i + 1, lines, TRUE)
                ELSE [ok |-> FALSE, lines |-> lines]
           ELSE IF c = "\n" THEN ScanLines(doc, i + 1, Append(lines, <<>>), FALSE)
                ELSE IF lines[n] = <<>> /\ IsBlank(c) THEN ScanLines(doc, i + 1, lines, TRUE)
                ELSE ScanLines(doc, i + 1, [lines EXCEPT ![n] = @ \o <<c>>], TRUE)

\* a continuation that is appended without the separating space
ContinueTag_NoSpace(result, line) ==
  [result EXCEPT ![Len(result)].value = @ \o line]

\* result.back().value += ' ' + lines[i]
ContinueTag(result, line) ==
  [result EXCEPT ![Len(result)].value = @ \o <<" ">> \o line]

\* a tag start that keeps the separating space in the value
NewTag_KeepSpace(line) ==
  LET pos == Find(line, " ", 0)
      nm  == IF pos = Npos THEN line ELSE Substr(line, 0, pos)
  IN  [name |-> nm, type |-> get_doc_type(nm),
       value |-> IF pos /= Npos THEN SubstrFrom(line, pos) ELSE <<>>,
       line_num |-> NoLine]

\* a tag start that looks the kind up from the whole line instead of the name
NewTag_KindFromLine(line) ==
  LET pos == Find(line, " ", 0)
      nm  == IF pos = Npos THEN line ELSE Substr(line, 0, pos)
  IN  [name |-> nm, type |-> get_doc_type(line),
       value |-> IF pos /= Npos THEN SubstrFrom(line, pos + 1) ELSE <<>>,
       line_num |-> NoLine]

\* the tag a line that begins with '@' starts
NewTag(line) ==
  LET pos == Find(line, " ", 0)
      nm  == IF pos = Npos THEN line ELSE Substr(line, 0, pos)
  IN  [name |-> nm, type |-> get_doc_type(nm),
       value |-> IF pos /= Npos THEN SubstrFrom(line, pos + 1) ELSE <<>>,
       line_num |-> NoLine]

\* a line number that is not clamped below the closing line of the comment
LineNum_Unclamped(decl_line, nlines, i) == decl_line - (nlines - i)

LineNum(decl_line, nlines, i) == Min(decl_line - (nlines - i), decl_line - 2)

RECURSIVE BuildTags(_, _, _, _)
BuildTags(lines, i, result, decl_line) ==
  IF i >= Len(lines) THEN result
  ELSE LET line == At(lines, i)
           r1   == IF line = <<>> \/ line[1] /= "@"
                   THEN ContinueTag(result, line)
                   ELSE Append(result, NewTag(line))
           m    == Len(r1)
           r2   == IF decl_line > 0
                   THEN [r1 EXCEPT ![m].line_num = LineNum(decl_line, Len(lines), i)]
                   ELSE r1
       IN  BuildTags(lines, i + 1, r2, decl_line)

\* an extractor that raises the error on a stray character but does not return
parse_php_doc_NoReturn(doc, decl_line) ==
  BuildTags(ScanLines(doc, 0, << <<>> >>, FALSE).lines, 0, <<php_doc_tag>>, decl_line)

parse_php_doc(doc, decl_line) ==
  LET scan == ScanLines(doc, 0, << <<>> >>, FALSE)
  IN  IF ~scan.ok THEN <<>>
      ELSE BuildTags(scan.lines, 0, <<php_doc_tag>>, decl_line)

ErrPhpDoc == "failed to parse php_doc"

\* kphp_error(0, "failed to parse php_doc"): what a parse_php_doc call raises
parse_php_doc_errors(doc) ==
  IF ScanLines(doc, 0, << <<>> >>, FALSE).ok THEN <<>> ELSE <<ErrPhpDoc>>

-----------------------------------------------------------------------------
(* PhpDocTypeRuleParser::find_tag_in_phpdoc, is_tag_in_phpdoc *)

StartsWithDollar(a) == a /= <<>> /\ a[1] = "$"

\* a lookup that, finding '$' on the second token, hands out that token as the type too
SplitTag_TypeFromSecond(tag) ==
  LET a1 == get_value_token(tag.value, 0)
      a2 == get_value_token(tag.value, Len(a1))
  IN  IF StartsWithDollar(a1)
      THEN [found |-> TRUE, out_var_name |-> SubstrFrom(a1, 1), out_type_str |-> a2]
      ELSE IF StartsWithDollar(a2)
      THEN [found |-> TRUE, out_var_name |-> SubstrFrom(a2, 1), out_type_str |-> a2]
      ELSE [found |-> TRUE, out_var_name |-> <<>>, out_type_str |-> a1]

\* the body of the loop for the tag that is returned
SplitTag(tag) ==
  LET a1 == get_value_token(tag.value, 0)
      a2 == get_value_token(tag.value, Len(a1))
  IN  IF StartsWithDollar(a1)
      THEN [found |-> TRUE, out_var_name |-> SubstrFrom(a1, 1), out_type_str |-> a2]
      ELSE IF StartsWithDollar(a2)
      THEN [found |-> TRUE, out_var_name |-> SubstrFrom(a2, 1), out_type_str |-> a1]
      ELSE [found |-> TRUE, out_var_name |-> <<>>, out_type_str |-> a1]

\* a lookup that compares the occurrence counter with > instead of >=
TagMatches_OffByOne(idx, off) == idx > off

\* tag.type == doc_type && idx++ >= offset
TagMatches(idx, off) == idx >= off

RECURSIVE FindLoop(_, _, _, _, _)
FindLoop(tgs, k, idx, kind, off) ==
  IF k > Len(tgs) THEN [found |-> FALSE, out_var_name |-> <<>>, out_type_str |-> <<>>]
  ELSE IF tgs[k].type = kind
       THEN IF TagMatches(idx, off) THEN SplitTag(tgs[k])
            ELSE FindLoop(tgs, k + 1, idx + 1, kind, off)
       ELSE FindLoop(tgs, k + 1, idx, kind, off)

find_tag_in_phpdoc(doc, kind, off, decl_line) ==
  FindLoop(parse_php_doc(doc, decl_line), 1, 0, kind, off)

\* an existence check that leaves the leading pseudo-tag out
is_tag_in_phpdoc_SkipFirst(doc, kind, decl_line) ==
  LET tgs == parse_php_doc(doc, decl_line)
  IN  \E k \in 2..Len(tgs) : tgs[k].type = kind

is_tag_in_phpdoc(doc, kind, decl_line) ==
  LET tgs == parse_php_doc(doc, decl_line)
  IN  \E k \in 1..Len(tgs) : tgs[k].type = kind

-----------------------------------------------------------------------------
(* PhpDocTypeRuleParser: the type-rule grammar *)

\* A vertex of the type tree; VertexPtr() is NullVertex, a null ClassPtr is NullClass
NullClass == <<"null">>

NullVertex == [op |-> "null", type_help |-> "", klass |-> NullClass, args |-> <<>>]

create_type_help_vertex(type) ==
  [op |-> "op_type_expr_type", type_help |-> type, klass |-> NullClass, args |-> <<>>]

\* VertexAdaptor<op_type_expr_type>::create(children) with type_help set afterwards
TypeExprType(type, children) ==
  [op |-> "op_type_expr_type", type_help |-> type, klass |-> NullClass, args |-> children]

\* VertexAdaptor<op_type_expr_lca>::create(res, next)
TypeExprLca(l, r) ==
  [op |-> "op_type_expr_lca", type_help |-> "", klass |-> NullClass, args |-> <<l, r>>]

\* GenTree::create_type_help_class_vertex(klass)
create_type_help_class_vertex(klass) ==
  [op |-> "op_type_expr_class", type_help |-> "tp_Class", klass |-> klass, args |-> <<>>]

Upper == {"A", "B", "C", "D", "E", "F", "G", "H", "I", "J", "K", "L", "M",
          "N", "O", "P", "Q", "R", "S", "T", "U", "V", "W", "X", "Y", "Z"}

Lower == {"a", "b", "c", "d", "e", "f", "g", "h", "i", "j", "k", "l", "m",
          "n", "o", "p", "q", "r", "s", "t", "u", "v", "w", "x", "y", "z"}

Digit == {"0", "1", "2", "3", "4", "5", "6", "7", "8", "9"}

isalnum(c) == c \in Upper \cup Lower \cup Digit

\* s.substr(pos, |kw|) == kw
\* a comparison that looks at the first character of the keyword only
StartsAt_FirstLetter(s, pos, kw) == pos < Len(s) /\ At(s, pos) = kw[1]

StartsAt(s, pos, kw) == Substr(s, pos, Len(kw)) = kw

\* s[pos]; a read at s.size() is out of bounds and yields whatever lies there
CharAt(s, pos, ctx) == IF pos < Len(s) THEN At(s, pos) ELSE ctx.oob

RECURSIVE ClassNameEnd(_, _)
ClassNameEnd(s, pos_end) ==
  IF pos_end < Len(s) /\ (isalnum(At(s, pos_end)) \/ At(s, pos_end) = "\\" \/ At(s, pos_end) = "_")
  THEN ClassNameEnd(s, pos_end + 1)
  ELSE pos_end

extract_classname_from_pos(s, pos) == Substr(s, pos, ClassNameEnd(s, pos) - pos)

\* G->env().get_tl_namespace_prefix()
tl_namespace_prefix == <<"V", "K", "\\", "T", "L", "\\">>

\* resolve_uses(current_function, name, '\\') in the global namespace without use-aliases
resolve_uses(name) ==
  IF name /= <<>> /\ name[1] = "\\" THEN Tail(name) ELSE name

\* G->get_class(class_name)
get_class(ctx, class_name) ==
  IF class_name \in DOMAIN ctx.class_table THEN class_name ELSE NullClass

is_trait(ctx, klass) == klass /= NullClass /\ ctx.class_table[klass]

\* no class name
NoName == <<>>

\* the result of a parse function: the vertex, the position reached, the
\* diagnostics raised by kphp_error, the classes pushed to unknown_classes_list
\* and the class that the diagnostic of phpdoc_parse_type names
Ret(v, pos, errs, unknown) ==
  [v |-> v, pos |-> pos, errs |-> errs, unknown |-> unknown, named |-> NoName]

\* CHECK(0, msg): raise msg and return VertexPtr()
Fail(pos, errs, unknown, msg) == Ret(NullVertex, pos, Append(errs, msg), unknown)

ErrUnexpectedEnd == "Failed to parse phpdoc type: unexpected end"
ErrUnmatchingParen == "Failed to parse phpdoc type: unmatching ()"
ErrUnknownTypeName == "Failed to parse phpdoc type: Unknown type name"
ErrUnmatchingBracket == "Failed to parse phpdoc type: unmatching []"
ErrExpectedOpen == "Failed to parse phpdoc type: expected '<' or '('"
ErrExpectedComma == "Failed to parse phpdoc type: expected ','"
ErrSomethingLeft == "Failed to parse phpdoc type: something left at the end after parsing"
ErrRawBool == "Do not use |bool in phpdoc, use |false instead"
ErrTrait == "You may not use trait as a type-hint"
ErrNoClass == "Could not find class in phpdoc"

\* a keyword table that tries the shorter spelling of a type first
SimpleKeywords_ShortFirst == <<
  <<<<"s", "t", "r", "i", "n", "g">>, "tp_string">>,
  <<<<"i", "n", "t">>, "tp_int">>,
  <<<<"i", "n", "t", "e", "g", "e", "r">>, "tp_int">>,
  <<<<"b", "o", "o", "l">>, "tp_bool">>,
  <<<<"b", "o", "o", "l", "e", "a", "n">>, "tp_bool">>,
  <<<<"f", "l", "o", "a", "t">>, "tp_float">>,
  <<<<"f", "a", "l", "s", "e">>, "tp_False">>,
  <<<<"d", "o", "u", "b", "l", "e">>, "tp_float">>,
  <<<<"m", "i", "x", "e", "d">>, "tp_var">>,
  <<<<"n", "u", "l", "l">>, "tp_var">>,
  <<<<"t", "r", "u", "e">>, "tp_bool">>,
  <<<<"v", "o", "i", "d">>, "tp_void">> >>

\* the keywords that yield a vertex without further parsing: <<spelling, type_help>>,
\* in the order the switch tries them
SimpleKeywords == <<
  <<<<"s", "t", "r", "i", "n", "g">>, "tp_string">>,
  <<<<"i", "n", "t", "e", "g", "e", "r">>, "tp_int">>,
  <<<<"i", "n", "t">>, "tp_int">>,
  <<<<"b", "o", "o", "l", "e", "a", "n">>, "tp_bool">>,
  <<<<"b", "o", "o", "l">>, "tp_bool">>,
  <<<<"f", "l", "o", "a", "t">>, "tp_float">>,
  <<<<"f", "a", "l", "s", "e">>, "tp_False">>,
  <<<<"d", "o", "u", "b", "l", "e">>, "tp_float">>,
  <<<<"m", "i", "x", "e", "d">>, "tp_var">>,
  <<<<"n", "u", "l", "l">>, "tp_var">>,
  <<<<"t", "r", "u", "e">>, "tp_bool">>,
  <<<<"v", "o", "i", "d">>, "tp_void">> >>

\* the keywords that open a parameterized type
NestedKeywords == <<
  <<<<"f", "u", "t", "u", "r", "e">>, "tp_future">>,
  <<<<"t", "u", "p", "l", "e">>, "tp_tuple">>,
  <<<<"\\", "t", "u", "p", "l", "e">>, "tp_tuple">>,
  <<<<"\\", "f", "u", "t", "u", "r", "e">>, "tp_future">> >>

kw_self == <<"s", "e", "l", "f">>
kw_array == <<"a", "r", "r", "a", "y">>
tl_prefix == <<"@", "t", "l", "\\">>

\* the first entry of a keyword table that matches at pos, 0 when none does
RECURSIVE MatchKeyword(_, _, _, _)
MatchKeyword(table, k, s, pos) ==
  IF k > Len(table) THEN 0
  ELSE IF StartsAt(s, pos, table[k][1]) THEN k
  ELSE MatchKeyword(table, k + 1, s, pos)

\* the case labels of the switch other than '(' and '\\'
CaseLetters == {"s", "i", "b", "f", "d", "m", "n", "t", "a", "v"}

\* a class name that may start with a lower-case letter without the @tl\ prefix
IsClassNameStart_AnyLetter(c, has_tl) ==
  c = "\\" \/ c \in Upper \/ c \in Lower \/ c = "_"

\* the character a class name may start with
IsClassNameStart(c, has_tl) ==
  c = "\\" \/ c \in Upper \/ (has_tl /\ (c \in Lower \/ c = "_"))

\* a default branch that fails at once on a class the table does not hold
ParseClassName_FailUnknown(s, pos0, ctx) ==
  LET has_tl == StartsAt(s, pos0, tl_prefix)
      pos    == IF has_tl THEN pos0 + Len(tl_prefix) ELSE pos0
      c      == CharAt(s, pos, ctx)
  IN  IF IsClassNameStart(c, has_tl)
      THEN LET rel   == extract_classname_from_pos(s, pos)
               full  == IF has_tl THEN tl_namespace_prefix \o rel ELSE rel
               name  == resolve_uses(full)
               klass == get_class(ctx, name)
           IN  IF klass = NullClass
               THEN Fail(pos + Len(rel), <<>>, <<name>>, ErrNoClass)
               ELSE Ret(create_type_help_class_vertex(klass), pos + Len(rel),
                        IF is_trait(ctx, klass) THEN <<ErrTrait>> ELSE <<>>, <<>>)
      ELSE Fail(pos, <<>>, <<>>, ErrUnknownTypeName)

\* the default branch: a class name, optionally behind the @tl\ prefix
ParseClassName(s, pos0, ctx) ==
  LET has_tl == StartsAt(s, pos0, tl_prefix)
      pos    == IF has_tl THEN pos0 + Len(tl_prefix) ELSE pos0
      c      == CharAt(s, pos, ctx)
  IN  IF IsClassNameStart(c, has_tl)
      THEN LET rel   == extract_classname_from_pos(s, pos)
               full  == IF has_tl THEN tl_namespace_prefix \o rel ELSE rel
               name  == resolve_uses(full)
               klass == get_class(ctx, name)
           IN  Ret(create_type_help_class_vertex(klass), pos + Len(rel),
                   IF is_trait(ctx, klass) THEN <<ErrTrait>> ELSE <<>>,
                   IF klass = NullClass THEN <<name>> ELSE <<>>)
      ELSE Fail(pos, <<>>, <<>>, ErrUnknownTypeName)

RECURSIVE parse_simple_type(_, _, _)
RECURSIVE parse_type_array(_, _, _)
RECURSIVE ArrayLoop(_, _)
RECURSIVE parse_nested_type_rule(_, _, _, _)
RECURSIVE NestedLoop(_, _, _, _, _, _, _)
RECURSIVE parse_type_expression(_, _, _)
RECURSIVE UnionLoop(_, _, _, _)

\* a '(' case that takes the expression without looking for the ')'
CloseParen_Unchecked(s, r) ==
  IF r.v = NullVertex THEN r
  ELSE IF r.pos < Len(s) /\ At(s, r.pos) = ")" THEN [r EXCEPT !.pos = @ + 1] ELSE r

\* case '(': what follows the parenthesized expression r
CloseParen(s, r) ==
  IF r.v = NullVertex THEN r
  ELSE IF ~(r.pos < Len(s) /\ At(s, r.pos) = ")")
       THEN Fail(r.pos, r.errs, r.unknown, ErrUnmatchingParen)
       ELSE [r EXCEPT !.pos = @ + 1]

parse_simple_type(s, pos, ctx) ==
  IF ~(pos < Len(s)) THEN Fail(pos, <<>>, <<>>, ErrUnexpectedEnd)
  ELSE LET c == At(s, pos)
           k == MatchKeyword(SimpleKeywords, 1, s, pos)
           n == MatchKeyword(NestedKeywords, 1, s, pos)
       IN  IF c = "("
           THEN CloseParen(s, parse_type_expression(s, pos + 1, ctx))
           ELSE IF k /= 0
           THEN Ret(create_type_help_vertex(SimpleKeywords[k][2]),
                    pos + Len(SimpleKeywords[k][1]), <<>>, <<>>)
           ELSE IF StartsAt(s, pos, kw_self)
           THEN Ret(create_type_help_class_vertex(ctx.class_id), pos + Len(kw_self), <<>>, <<>>)
           ELSE IF n /= 0
           THEN parse_nested_type_rule(s, pos + Len(NestedKeywords[n][1]), NestedKeywords[n][2], ctx)
           ELSE IF StartsAt(s, pos, kw_array)
           THEN Ret(TypeExprType("tp_array", <<create_type_help_vertex("tp_Unknown")>>),
                    pos + Len(kw_array), <<>>, <<>>)
           ELSE IF c \in CaseLetters
           THEN Fail(pos, <<>>, <<>>, ErrUnknownTypeName)
           ELSE ParseClassName(s, pos, ctx)

\* a suffix reader that stops behind the first pair
ArrayLoop_OnePair(s, r) ==
  IF r.v = NullVertex THEN r
  ELSE IF r.pos < Len(s) /\ At(s, r.pos) = "["
  THEN IF ~(r.pos + 1 < Len(s) /\ At(s, r.pos + 1) = "]")
       THEN Fail(r.pos, r.errs, r.unknown, ErrUnmatchingBracket)
       ELSE Ret(TypeExprType("tp_array", <<r.v>>), r.pos + 2, r.errs, r.unknown)
  ELSE r

\* the while loop of parse_type_array, entered with the simple type r
ArrayLoop(s, r) ==
  IF r.v = NullVertex THEN r
  ELSE IF r.pos < Len(s) /\ At(s, r.pos) = "["
  THEN IF ~(r.pos + 1 < Len(s) /\ At(s, r.pos + 1) = "]")
       THEN Fail(r.pos, r.errs, r.unknown, ErrUnmatchingBracket)
       ELSE ArrayLoop(s, Ret(TypeExprType("tp_array", <<r.v>>), r.pos + 2, r.errs, r.unknown))
  ELSE r

parse_type_array(s, pos, ctx) == ArrayLoop(s, parse_simple_type(s, pos, ctx))

\* one turn of the while (true) loop of parse_nested_type_rule: r is the argument parsed
NestedStep(s, r, sub_types, errs, unknown, type_help) ==
  IF r.v = NullVertex THEN Ret(NullVertex, r.pos, errs \o r.errs, unknown \o r.unknown)
  ELSE IF ~(r.pos < Len(s)) THEN Fail(r.pos, errs \o r.errs, unknown \o r.unknown, ErrUnexpectedEnd)
  ELSE IF At(s, r.pos) = ">" \/ At(s, r.pos) = ")"
  THEN Ret(TypeExprType(type_help, Append(sub_types, r.v)), r.pos + 1,
           errs \o r.errs, unknown \o r.unknown)
  ELSE IF At(s, r.pos) /= ","
  THEN Fail(r.pos, errs \o r.errs, unknown \o r.unknown, ErrExpectedComma)
  ELSE \* the next argument starts behind the comma
       Ret(NullVertex, r.pos + 1, errs \o r.errs, unknown \o r.unknown)

\* the loop goes on when the argument was followed by a comma
NestedGoesOn(s, r) ==
  r.v /= NullVertex /\ r.pos < Len(s) /\ At(s, r.pos) = ","

\* a loop that goes on without keeping the argument in front of the comma
NestedNext_DropsArg(s, r, st, sub_types, type_help, ctx) ==
  IF NestedGoesOn(s, r)
  THEN NestedLoop(s, st.pos, sub_types, st.errs, st.unknown, type_help, ctx)
  ELSE st

NestedNext(s, r, st, sub_types, type_help, ctx) ==
  IF NestedGoesOn(s, r)
  THEN NestedLoop(s, st.pos, Append(sub_types, r.v), st.errs, st.unknown, type_help, ctx)
  ELSE st

NestedArg(s, r, sub_types, errs, unknown, type_help, ctx) ==
  NestedNext(s, r, NestedStep(s, r, sub_types, errs, unknown, type_help), sub_types, type_help, ctx)

NestedLoop(s, pos, sub_types, errs, unknown, type_help, ctx) ==
  NestedArg(s, parse_type_expression(s, pos, ctx), sub_types, errs, unknown, type_help, ctx)

parse_nested_type_rule(s, pos, type_help, ctx) ==
  IF ~(pos < Len(s) /\ (At(s, pos) = "<" \/ At(s, pos) = "("))
  THEN Fail(pos, <<>>, <<>>, ErrExpectedOpen)
  ELSE NestedLoop(s, pos + 1, <<>>, <<>>, <<>>, type_help, ctx)

kw_bool == <<"b", "o", "o", "l">>

\* a test that takes every member starting with 'bool' for a raw bool
IsRawBool_Prefix(s, old_pos, pos) == Substr(s, old_pos, Len(kw_bool)) = kw_bool

\* s.substr(old_pos, pos - old_pos) == "bool"
IsRawBool(s, old_pos, pos) == Substr(s, old_pos, pos - old_pos) = kw_bool

\* behind the loop: the lint on a union that holds a raw bool
UnionEnd(r, has_raw_bool) ==
  IF r.v.op = "op_type_expr_lca" /\ has_raw_bool
  THEN [r EXCEPT !.errs = Append(@, ErrRawBool)]
  ELSE r

\* a loop turn that puts the new member in front of the union built so far
UnionNext_Swapped(s, r, old_pos, next, has_raw_bool, ctx) ==
  IF next.v = NullVertex
  THEN Ret(NullVertex, next.pos, r.errs \o next.errs, r.unknown \o next.unknown)
  ELSE UnionLoop(s, Ret(TypeExprLca(next.v, r.v), next.pos,
                        r.errs \o next.errs, r.unknown \o next.unknown),
                 has_raw_bool \/ IsRawBool(s, old_pos, next.pos), ctx)

\* one turn of the while loop of parse_type_expression: next is the member parsed at old_pos
UnionNext(s, r, old_pos, next, has_raw_bool, ctx) ==
  IF next.v = NullVertex
  THEN Ret(NullVertex, next.pos, r.errs \o next.errs, r.unknown \o next.unknown)
  ELSE UnionLoop(s, Ret(TypeExprLca(r.v, next.v), next.pos,
                        r.errs \o next.errs, r.unknown \o next.unknown),
                 has_raw_bool \/ IsRawBool(s, old_pos, next.pos), ctx)

UnionLoop(s, r, has_raw_bool, ctx) ==
  IF r.pos < Len(s) /\ At(s, r.pos) = "|"
  THEN UnionNext(s, r, r.pos + 1, parse_type_array(s, r.pos + 1, ctx), has_raw_bool, ctx)
  ELSE UnionEnd(r, has_raw_bool)

\* an expression that ends behind its first member
UnionStart_FirstOnly(s, old_pos, r, ctx) == r

\* parse_type_expression behind its first member r, parsed at old_pos
UnionStart(s, old_pos, r, ctx) ==
  IF r.v = NullVertex THEN r
  ELSE UnionLoop(s, r, IsRawBool(s, old_pos, r.pos), ctx)

parse_type_expression(s, pos, ctx) ==
  UnionStart(s, pos, parse_type_array(s, pos, ctx), ctx)

varg_dots == <<" ", ".", ".", ".">>

\* type_str.ends_with(varg_dots)
EndsWith(s, suffix) ==
  Len(s) >= Len(suffix) /\ SubstrFrom(s, Len(s) - Len(suffix)) = suffix

\* the variadic suffix is all that is left behind the expression
IsVariadic(s, pos) == Len(s) = pos + Len(varg_dots) /\ EndsWith(s, varg_dots)

\* a top-level parse that does not look at what is left
FullyConsumed_Unchecked(s, pos) == TRUE

\* the scan position that must equal the input length for the parse to succeed
FullyConsumed(s, pos) == pos = Len(s)

\* CHECK(pos == type_str.size(), ...)
CheckConsumed(s, r) ==
  IF ~FullyConsumed(s, r.pos) THEN Fail(r.pos, r.errs, r.unknown, ErrSomethingLeft) ELSE r

\* a top level that consumes the variadic suffix and hands out the type as it is
TopLevel_NoWrap(s, r) ==
  IF r.v = NullVertex THEN r
  ELSE IF IsVariadic(s, r.pos)
  THEN CheckConsumed(s, [r EXCEPT !.pos = @ + Len(varg_dots)])
  ELSE CheckConsumed(s, r)

\* parse_from_type_string behind the top-level expression r
TopLevel(s, r) ==
  IF r.v = NullVertex THEN r
  ELSE IF IsVariadic(s, r.pos)
  THEN CheckConsumed(s, Ret(TypeExprType("tp_array", <<r.v>>), r.pos + Len(varg_dots),
                            r.errs, r.unknown))
  ELSE CheckConsumed(s, r)

parse_from_type_string(s, ctx) == TopLevel(s, parse_type_expression(s, 0, ctx))

\* a check of the list that is made only when the grammar parse gave a tree
CheckUnknownClasses_OnSuccess(r) ==
  IF r.v /= NullVertex /\ r.unknown /= <<>>
  THEN [Fail(r.pos, r.errs, r.unknown, ErrNoClass) EXCEPT !.named = Head(r.unknown)]
  ELSE r

\* kphp_error_act(parser.get_unknown_classes().empty(),
\*                format("Could not find class in phpdoc: %s...", parser.get_unknown_classes().begin()->c_str()),
\*                return {})
CheckUnknownClasses(r) ==
  IF r.unknown /= <<>>
  THEN [Fail(r.pos, r.errs, r.unknown, ErrNoClass) EXCEPT !.named = Head(r.unknown)]
  ELSE r

phpdoc_parse_type(s, ctx) == CheckUnknownClasses(parse_from_type_string(s, ctx))

-----------------------------------------------------------------------------
(* The callers: a run makes one call on the inputs fixed by Init and leaves  *)
(* what the call returned in the result variables.                          *)

NoRes == Ret(NullVertex, 0, <<>>, <<>>)

\* all strings over an alphabet of at most n characters
Strings(alphabet, n) == UNION {[1..k -> alphabet] : k \in 0..n}

\* the context a PhpDocTypeRuleParser works in; c is what an out-of-bounds read yields
Ctx(c) == [class_table |-> class_table, class_id |-> class_id, oob |-> c]

\* what may lie behind the end of a string_view: the terminator or any other byte
Nul == "NUL"
OobChars == {Nul, "A", "a"}

Results0 ==
  /\ pc = "start"
  /\ doc_type = "unknown"
  /\ offset = 0
  /\ tags = <<>>
  /\ found = FALSE
  /\ out_var_name = <<>>
  /\ out_type_str = <<>>
  /\ res = NoRes
  /\ errors = <<>>
  /\ callers = <<>>

ParsePhpDoc ==
  /\ pc = "start"
  /\ pc' = "parse_php_doc"
  /\ tags' = parse_php_doc(phpdoc, stage_line)
  /\ errors' = parse_php_doc_errors(phpdoc)
  /\ found' = FALSE
  /\ out_var_name' = <<>>
  /\ out_type_str' = <<>>
  /\ res' = NoRes
  /\ UNCHANGED <<inputs, callers>>

\* the caller asks for one of the kinds at one of the offsets and passes fresh
\* empty strings, which a failed lookup leaves untouched
FindTagInPhpdoc(kinds, offsets) ==
  \E kind \in kinds, off \in offsets :
    LET r == find_tag_in_phpdoc(phpdoc, kind, off, stage_line)
    IN  /\ pc = "start"
        /\ pc' = "find_tag_in_phpdoc"
        /\ doc_type' = kind
        /\ offset' = off
        /\ found' = r.found
        /\ errors' = parse_php_doc_errors(phpdoc)
        /\ out_var_name' = r.out_var_name
        /\ out_type_str' = r.out_type_str
        /\ tags' = <<>>
        /\ res' = NoRes
        /\ UNCHANGED <<phpdoc, stage_line, type_str, class_table, class_id, callers>>

IsTagInPhpdoc(kinds) ==
  \E kind \in kinds :
    /\ pc = "start"
    /\ pc' = "is_tag_in_phpdoc"
    /\ doc_type' = kind
    /\ offset' = 0
    /\ found' = is_tag_in_phpdoc(phpdoc, kind, stage_line)
    /\ errors' = parse_php_doc_errors(phpdoc)
    /\ out_var_name' = <<>>
    /\ out_type_str' = <<>>
    /\ tags' = <<>>
    /\ res' = NoRes
    /\ UNCHANGED <<phpdoc, stage_line, type_str, class_table, class_id, callers>>

ParseFromTypeString ==
  \E c \in OobChars :
    /\ pc = "start"
    /\ pc' = "parse_from_type_string"
    /\ res' = parse_from_type_string(type_str, Ctx(c))
    /\ errors' = res'.errs
    /\ found' = FALSE
    /\ out_var_name' = <<>>
    /\ out_type_str' = <<>>
    /\ tags' = <<>>
    /\ UNCHANGED <<inputs, callers>>

PhpdocParseType ==
  \E c \in OobChars :
    /\ pc = "start"
    /\ pc' = "phpdoc_parse_type"
    /\ res' = phpdoc_parse_type(type_str, Ctx(c))
    /\ errors' = res'.errs
    /\ found' = FALSE
    /\ out_var_name' = <<>>
    /\ out_type_str' = <<>>
    /\ tags' = <<>>
    /\ UNCHANGED <<inputs, callers>>

\* the class table of the compiled program: class A and trait T are registered
ClassTable0 == (<<"A">> :> FALSE) @@ (<<"T">> :> TRUE)

NoContext ==
  /\ class_table = ClassTable0
  /\ class_id = <<"A">>

-----------------------------------------------------------------------------
(* Tokenizer runs: one @var tag whose value ranges over all short strings *)

MaxValueLen == 7
TokAlphabet == {" ", "$", "a", "."}
TokPrefix == <<"*", " ", "@", "v", "a", "r", " ">>

InitTok ==
  /\ \E v \in Strings(TokAlphabet, MaxValueLen) : phpdoc = TokPrefix \o v
  /\ stage_line = 0
  /\ type_str = <<>>
  /\ NoContext
  /\ Results0

NextTok == FindTagInPhpdoc({"var"}, {0}) \/ ParsePhpDoc

SpecTok == InitTok /\ [][NextTok]_vars

-----------------------------------------------------------------------------
(* Scanner runs: the comment body ranges over all short strings *)

MaxDocLen == 5
ScanAlphabet == {"*", " ", "\t", "\n", "@", "a"}

InitScan ==
  /\ phpdoc \in Strings(ScanAlphabet, MaxDocLen)
  /\ stage_line = 0
  /\ type_str = <<>>
  /\ NoContext
  /\ Results0

NextScan == ParsePhpDoc \/ FindTagInPhpdoc({"unknown"}, {0}) \/ IsTagInPhpdoc({"unknown"})

SpecScan == InitScan /\ [][NextScan]_vars

-----------------------------------------------------------------------------
(* Comment runs: the comment body is a few lines out of a fixed set *)

MaxLines == 3
MaxOffset == 1
ReqKinds == {"var", "param", "returns", "unknown"}

DocLines == {
  <<"*", " ", "@", "v", "a", "r", " ", "$", "a", " ", "A">>,
  <<" ", "*", "@", "t", "y", "p", "e", " ", "B", " ", "$", "b", " ">>,
  <<"*", " ", "@", "p", "a", "r", "a", "m", " ", "$", "a", "a", " ", "A">>,
  <<"*", "@", "r", "e", "t", "u", "r", "n">>,
  <<"*", " ", "@", "r", "e", "t", "u", "r", "n", "s", " ", "i", "n", "t">>,
  <<"*", " ", "@", "n", "o", "t", "h", "i", "n", "g", " ", "$", "v", " ", "x">>,
  <<"*", "@", "V", "a", "r", " ", "$", "c">>,
  <<"*", " ", "t", "e", "x", "t">>,
  <<"@", "v", "a", "r", " ", "x">> }

\* the lines joined by newlines
RECURSIVE JoinLines(_)
JoinLines(ls) ==
  IF Len(ls) = 1 THEN ls[1] ELSE ls[1] \o <<"\n">> \o JoinLines(Tail(ls))

InitDoc ==
  /\ \E n \in 1..MaxLines : \E ls \in [1..n -> DocLines] : phpdoc = JoinLines(ls)
  /\ stage_line = 0
  /\ type_str = <<>>
  /\ NoContext
  /\ Results0

NextDoc == ParsePhpDoc \/ FindTagInPhpdoc(ReqKinds, 0..MaxOffset) \/ IsTagInPhpdoc(ReqKinds)

SpecDoc == InitDoc /\ [][NextDoc]_vars

-----------------------------------------------------------------------------
(* Type runs: the type text is a few pieces out of a fixed set, and the      *)
(* comment body is one @type tag that holds it                               *)

MaxTypePieces == 4

TypePieces == {
  <<"i", "n", "t">>, <<"s", "t", "r", "i", "n", "g">>, <<"A">>, <<"|">>, <<"[", "]">>, <<"?">>,
  <<" ">>, <<" ", ".", ".", ".">>, <<"h", "e", "l", "l", "o">>, <<" ", "w", "o", "r", "l", "d">> }

TypePrefix == <<"*", " ", "@", "t", "y", "p", "e", " ">>

InitType ==
  /\ \E n \in 0..MaxTypePieces : \E ps \in [1..n -> TypePieces] :
       /\ type_str = Concat(ps)
       /\ phpdoc = TypePrefix \o Concat(ps)
  /\ stage_line = 0
  /\ NoContext
  /\ Results0

NextType == ParseFromTypeString \/ FindTagInPhpdoc({"var"}, {0})

SpecType == InitType /\ [][NextType]_vars

-----------------------------------------------------------------------------
(* Union runs: the type text is a few members joined by '|', and the comment *)
(* body is one @type tag that holds it                                       *)

MaxMembers == 3

UnionMembers == {
  <<"i", "n", "t">>, <<"b", "o", "o", "l">>, <<"b", "o", "o", "l", "e", "a", "n">>, <<"s", "t", "r", "i", "n", "g">>, <<"A">>, <<"B">>, <<"T">>, <<"B", "[", "]">>,
  <<"(", "A", "|", "B", ")", "[", "]">>, <<"(", "f", "a", "l", "s", "e", "|", "i", "n", "t", ")", "[", "]">>, <<"(", "i", "n", "t">>, <<"(", "i", "n", "t", "|", "b", "o", "o", "l", ")">> }

\* the members joined by '|'
RECURSIVE JoinMembers(_)
JoinMembers(ms) ==
  IF Len(ms) = 1 THEN ms[1] ELSE ms[1] \o <<"|">> \o JoinMembers(Tail(ms))

InitUnion ==
  /\ \E n \in 1..MaxMembers : \E ms \in [1..n -> UnionMembers] :
       /\ type_str = JoinMembers(ms)
       /\ phpdoc = TypePrefix \o JoinMembers(ms)
  /\ stage_line = 0
  /\ NoContext
  /\ Results0

NextUnion == ParseFromTypeString \/ PhpdocParseType

SpecUnion == InitUnion /\ [][NextUnion]_vars

-----------------------------------------------------------------------------
(* Array runs: the type text is a simple type followed by a few brackets *)

MaxSuffixLen == 6

ArrayBases == { <<"i", "n", "t">>, <<"A">>, <<"(", "i", "n", "t", "|", "A", ")">> }

InitArray ==
  /\ \E b \in ArrayBases : \E sfx \in Strings({"[", "]"}, MaxSuffixLen) :
       /\ type_str = b \o sfx
       /\ phpdoc = TypePrefix \o b \o sfx
  /\ stage_line = 0
  /\ NoContext
  /\ Results0

NextArray == ParseFromTypeString \/ PhpdocParseType

SpecArray == InitArray /\ [][NextArray]_vars

-----------------------------------------------------------------------------
(* Variadic runs: the type text is a few pieces, the variadic suffix among   *)
(* them, inside and outside brackets                                         *)

MaxVariadicPieces == 4

VariadicPieces == {
  <<"i", "n", "t">>, <<"A", "[", "]">>, <<" ", ".", ".", ".">>, <<"(">>, <<")">>, <<"t", "u", "p", "l", "e", "<">>, <<">">> }

InitVariadic ==
  /\ \E n \in 1..MaxVariadicPieces : \E ps \in [1..n -> VariadicPieces] :
       /\ type_str = Concat(ps)
       /\ phpdoc = TypePrefix \o Concat(ps)
  /\ stage_line = 0
  /\ NoContext
  /\ Results0

NextVariadic == ParseFromTypeString \/ PhpdocParseType

SpecVariadic == InitVariadic /\ [][NextVariadic]_vars

-----------------------------------------------------------------------------
(* Parameter runs: one @param tag whose value is a few pieces, the variadic  *)
(* marker among them                                                         *)

MaxParamPieces == 4

ParamPieces == { <<"T">>, <<"a">>, <<" ">>, <<"$">>, <<" ", ".", ".", ".", "$">>, <<".", ".", ".">> }

ParamPrefix == <<"*", " ", "@", "p", "a", "r", "a", "m", " ">>

InitParam ==
  /\ \E n \in 0..MaxParamPieces : \E ps \in [1..n -> ParamPieces] :
       phpdoc = ParamPrefix \o Concat(ps)
  /\ stage_line = 0
  /\ type_str = <<>>
  /\ NoContext
  /\ Results0

NextParam == FindTagInPhpdoc({"param"}, {0}) \/ ParsePhpDoc

SpecParam == InitParam /\ [][NextParam]_vars

-----------------------------------------------------------------------------
(* Parameterized runs: the type text is 'tuple' or 'future', an opening      *)
(* bracket, a few arguments joined by ',' and a closing bracket, any of the  *)
(* brackets possibly missing                                                 *)

MaxArgs == 2

NestedHeads == { <<"t", "u", "p", "l", "e">>, <<"f", "u", "t", "u", "r", "e">>, <<"\\", "t", "u", "p", "l", "e">>, <<"\\", "f", "u", "t", "u", "r", "e">> }
NestedOpeners == { <<"<">>, <<"(">>, <<>> }
NestedClosers == { <<">">>, <<")">>, <<>> }
NestedArgs == { <<"i", "n", "t">>, <<"A", "[", "]">>, <<"i", "n", "t", "|", "s", "t", "r", "i", "n", "g">>, <<"f", "u", "t", "u", "r", "e", "<", "A", ">">>, <<>> }

\* the arguments joined by ','
RECURSIVE JoinArgs(_)
JoinArgs(as) ==
  IF as = <<>> THEN <<>>
  ELSE IF Len(as) = 1 THEN as[1] ELSE as[1] \o <<",">> \o JoinArgs(Tail(as))

InitNested ==
  /\ \E h \in NestedHeads, o \in NestedOpeners, c \in NestedClosers :
       \E n \in 0..MaxArgs : \E as \in [1..n -> NestedArgs] :
         /\ type_str = h \o o \o JoinArgs(as) \o c
         /\ phpdoc = TypePrefix \o h \o o \o JoinArgs(as) \o c
  /\ stage_line = 0
  /\ NoContext
  /\ Results0

NextNested == ParseFromTypeString \/ PhpdocParseType

SpecNested == InitNested /\ [][NextNested]_vars

-----------------------------------------------------------------------------
(* Line runs: the comment body is a few marked lines and the line of the     *)
(* declaration is known, or not                                              *)

MaxLineCount == 3
MaxDeclLine == 5

MarkedLines == { <<"*", "@", "a">>, <<"*", " ", "t">>, <<"*", "@", "v", "a", "r", " ", "x">>, <<"*">> }

InitLine ==
  /\ \E n \in 1..MaxLineCount : \E ls \in [1..n -> MarkedLines] : phpdoc = JoinLines(ls)
  /\ stage_line \in -1..MaxDeclLine
  /\ type_str = <<>>
  /\ NoContext
  /\ Results0

NextLine == ParsePhpDoc \/ FindTagInPhpdoc({"var"}, {0})

SpecLine == InitLine /\ [][NextLine]_vars

-----------------------------------------------------------------------------
(* Round-trip runs: the type text is the serialization of a type tree of a   *)
(* few nodes built from the constructors of the grammar                      *)

MaxTreeSize == 5

TreeLeaves == { create_type_help_vertex("tp_int"), create_type_help_class_vertex(<<"A">>) }

\* the trees of exactly n nodes
RECURSIVE TreesOfSize(_)
TreesOfSize(n) ==
  IF n = 1 THEN TreeLeaves
  ELSE LET sub == TreesOfSize(n - 1)
           pairs == UNION {TreesOfSize(k) \X TreesOfSize(n - 1 - k) : k \in 1..(n - 2)}
       IN  {TypeExprType("tp_array", <<t>>) : t \in sub}
           \cup {TypeExprType("tp_tuple", <<t>>) : t \in sub}
           \cup {TypeExprType("tp_future", <<t>>) : t \in sub}
           \cup {TypeExprLca(p[1], p[2]) : p \in pairs}
           \cup {TypeExprType("tp_tuple", <<p[1], p[2]>>) : p \in pairs}

TypeTrees == UNION {TreesOfSize(n) : n \in 1..MaxTreeSize}

\* the serializer of the test scaffolding: unions in parentheses when they are
\* array elements or right operands of a union
RECURSIVE TypeText(_)
RECURSIVE ArgsText(_, _)
InParens(t) ==
  IF t.op = "op_type_expr_lca" THEN <<"(">> \o TypeText(t) \o <<")">> ELSE TypeText(t)
TypeText(t) ==
  IF t.op = "op_type_expr_lca" THEN TypeText(t.args[1]) \o <<"|">> \o InParens(t.args[2])
  ELSE IF t.op = "op_type_expr_class" THEN t.klass
  ELSE IF t.type_help = "tp_array" THEN InParens(t.args[1]) \o <<"[", "]">>
  ELSE IF t.type_help = "tp_tuple" THEN <<"t", "u", "p", "l", "e", "<">> \o ArgsText(t.args, 1) \o <<">">>
  ELSE IF t.type_help = "tp_future" THEN <<"f", "u", "t", "u", "r", "e", "<">> \o ArgsText(t.args, 1) \o <<">">>
  ELSE <<"i", "n", "t">>
ArgsText(ts, i) ==
  IF i = Len(ts) THEN TypeText(ts[i]) ELSE TypeText(ts[i]) \o <<",">> \o ArgsText(ts, i + 1)

\* every tree with its text
TextsOfTrees == {<<TypeText(t), t>> : t \in TypeTrees}

InitRound ==
  /\ \E p \in TextsOfTrees :
       /\ type_str = p[1]
       /\ phpdoc = TypePrefix \o p[1]
  /\ stage_line = 0
  /\ NoContext
  /\ Results0

NextRound == ParseFromTypeString \/ PhpdocParseType

SpecRound == InitRound /\ [][NextRound]_vars

-----------------------------------------------------------------------------
(* Kind runs: the comment body is a few lines whose tag names are of known   *)
(* and of unknown kinds                                                      *)

MaxKindLines == 3

KindLines == {
  <<"*", "@", "p", "a", "r", "a", "m", " ", "a">>,
  <<"*", "@", "r", "e", "t", "u", "r", "n">>,
  <<"*", " ", "@", "r", "e", "t", "u", "r", "n", "s", " ", " ", "x", " ", "y">>,
  <<"*", "@", "k", "p", "h", "p", "-", "i", "n", "l", "i", "n", "e">>,
  <<"*", "@", "V", "a", "r", "\t", "b">>,
  <<"*", " ", "t", "e", "x", "t">>,
  <<"*">>,
  <<"*", "@">> }

InitKind ==
  /\ \E n \in 1..MaxKindLines : \E ls \in [1..n -> KindLines] : phpdoc = JoinLines(ls)
  /\ stage_line = 0
  /\ type_str = <<>>
  /\ NoContext
  /\ Results0

NextKind == ParsePhpDoc \/ IsTagInPhpdoc({"param", "returns"})

SpecKind == InitKind /\ [][NextKind]_vars

-----------------------------------------------------------------------------
(* Keyword runs: the type text is a few pieces out of keywords, parts of     *)
(* keywords and other characters                                             *)

MaxKeywordPieces == 2

KeywordPieces == {
  <<"i", "n", "t">>, <<"e", "g", "e", "r">>, <<"b", "o", "o", "l">>, <<"e", "a", "n">>, <<"f", "l", "o", "a", "t">>, <<"f", "a", "l", "s", "e">>, <<"d", "o", "u", "b", "l", "e">>,
  <<"s", "t", "r", "i", "n", "g">>, <<"m", "i", "x", "e", "d">>, <<"n", "u", "l", "l">>, <<"v", "o", "i", "d">>, <<"t", "r", "u", "e">>, <<"a", "r", "r", "a", "y">>, <<"s", "e", "l", "f">>,
  <<"t", "u", "p", "l", "e">>, <<"x">>, <<"|">>, <<"(">>, <<"A">>, <<"@", "t", "l", "\\">>, <<"i">>, <<"1">> }

InitKeyword ==
  /\ \E n \in 0..MaxKeywordPieces : \E ps \in [1..n -> KeywordPieces] :
       /\ type_str = Concat(ps)
       /\ phpdoc = TypePrefix \o Concat(ps)
  /\ stage_line = 0
  /\ NoContext
  /\ Results0

NextKeyword == ParseFromTypeString \/ PhpdocParseType

SpecKeyword == InitKeyword /\ [][NextKeyword]_vars

-----------------------------------------------------------------------------
(* Concurrent callers: every caller makes its calls in a call frame of its   *)
(* own; a call of phpdoc_parse_type runs statement by statement, so that the *)
(* calls of different callers interleave; the extractor and the lookups work *)
(* on local variables only and run in one step.  The class table is shared   *)
(* and only read.                                                            *)

NumCallers == 2

Callers == 1..NumCallers

CallTexts == { <<"B">>, <<"C", "|", "B">>, <<"i", "n", "t">> }
CallDocs == { <<"*", "@", "v", "a", "r", " ", "B", " ", "$", "b">>, <<"*", " ", "t", "\n", "*", "@", "p", "a", "r", "a", "m", " ", "$", "c", " ", "C">> }
CallKinds == {"var", "param"}

\* stage::get_line() of the declaration the caller works on
CallerLine(i) == 4 + i

\* a parser that all callers share: the list of unknown classes is that of caller 1
ConstructParser_Shared(frames, i) == frames[1].parser

\* PhpDocTypeRuleParser parser(current_function) of caller i: a local object
\* with an empty unknown_classes_list
ConstructParser(frames, i) == [unknown_classes_list |-> <<>>]

\* no parser: the local object is not constructed yet, or it is destroyed
NoParser == [unknown_classes_list |-> <<>>]

\* the frame of a caller that has made no call
Frame0 ==
  [pc |-> "idle", fn |-> "none", text |-> <<>>, kind |-> "unknown",
   parser |-> NoParser, seen |-> <<>>, doc_type |-> NullVertex,
   ret |-> NullVertex, errs |-> <<>>]

\* a caller makes its next call when the one before has returned
MayCall(f) == f.pc \in {"idle", "returned"}

\* the frame on entry of a call
Enter(f, fn, text, kind) ==
  [f EXCEPT !.fn = fn, !.text = text, !.kind = kind, !.seen = <<>>,
            !.doc_type = NullVertex, !.ret = NullVertex, !.errs = <<>>]

\* phpdoc_parse_type(type_str, current_function) is entered
CallPhpdocParseType(i) ==
  /\ MayCall(callers[i])
  /\ \E t \in CallTexts :
       callers' = [callers EXCEPT ![i] =
                     [Enter(@, "phpdoc_parse_type", t, "unknown") EXCEPT !.pc = "line_422"]]
  /\ UNCHANGED <<inputs, pc, tags, found, out_var_name, out_type_str, res, errors>>

\* line 422: the parser of the call is constructed
Construct(i) ==
  /\ callers[i].pc = "line_422"
  /\ callers' = [callers EXCEPT ![i].parser = ConstructParser(callers, i),
                                ![i].pc = "line_423"]
  /\ UNCHANGED <<inputs, pc, tags, found, out_var_name, out_type_str, res, errors>>

\* line 423: parser.parse_from_type_string(type_str) pushes the classes it
\* does not find to the list of the parser
Parse(i) ==
  /\ callers[i].pc = "line_423"
  /\ \E c \in OobChars :
       LET r == parse_from_type_string(callers[i].text, Ctx(c))
       IN  callers' = [callers EXCEPT
                         ![i].parser.unknown_classes_list = @ \o r.unknown,
                         ![i].doc_type = r.v,
                         ![i].errs = r.errs,
                         ![i].pc = "line_425"]
  /\ UNCHANGED <<inputs, pc, tags, found, out_var_name, out_type_str, res, errors>>

\* lines 425-430: the list of the parser, as the call sees it, decides what is
\* returned; the parser goes out of scope
Return(i) ==
  /\ callers[i].pc = "line_425"
  /\ LET f == callers[i]
         r == CheckUnknownClasses(Ret(f.doc_type, 0, f.errs, f.parser.unknown_classes_list))
     IN  callers' = [callers EXCEPT ![i].ret = r.v, ![i].errs = r.errs,
                                    ![i].seen = f.parser.unknown_classes_list,
                                    ![i].parser = NoParser,
                                    ![i].pc = "returned"]
  /\ UNCHANGED <<inputs, pc, tags, found, out_var_name, out_type_str, res, errors>>

CallParsePhpDoc(i) ==
  /\ MayCall(callers[i])
  /\ \E d \in CallDocs :
       callers' = [callers EXCEPT ![i] =
                     [Enter(@, "parse_php_doc", d, "unknown") EXCEPT
                        !.ret = parse_php_doc(d, CallerLine(i)),
                        !.errs = parse_php_doc_errors(d),
                        !.pc = "returned"]]
  /\ UNCHANGED <<inputs, pc, tags, found, out_var_name, out_type_str, res, errors>>

CallFindTagInPhpdoc(i) ==
  /\ MayCall(callers[i])
  /\ \E d \in CallDocs, k \in CallKinds :
       callers' = [callers EXCEPT ![i] =
                     [Enter(@, "find_tag_in_phpdoc", d, k) EXCEPT
                        !.ret = find_tag_in_phpdoc(d, k, 0, CallerLine(i)),
                        !.errs = parse_php_doc_errors(d),
                        !.pc = "returned"]]
  /\ UNCHANGED <<inputs, pc, tags, found, out_var_name, out_type_str, res, errors>>

CallIsTagInPhpdoc(i) ==
  /\ MayCall(callers[i])
  /\ \E d \in CallDocs, k \in CallKinds :
       callers' = [callers EXCEPT ![i] =
                     [Enter(@, "is_tag_in_phpdoc", d, k) EXCEPT
                        !.ret = is_tag_in_phpdoc(d, k, CallerLine(i)),
                        !.errs = parse_php_doc_errors(d),
                        !.pc = "returned"]]
  /\ UNCHANGED <<inputs, pc, tags, found, out_var_name, out_type_str, res, errors>>

InitCalls ==
  /\ callers = [i \in Callers |-> Frame0]
  /\ phpdoc = <<>>
  /\ stage_line = 0
  /\ type_str = <<>>
  /\ NoContext
  /\ pc = "start"
  /\ doc_type = "unknown"
  /\ offset = 0
  /\ tags = <<>>
  /\ found = FALSE
  /\ out_var_name = <<>>
  /\ out_type_str = <<>>
  /\ res = NoRes
  /\ errors = <<>>

NextCalls ==
  \E i \in Callers :
    \/ CallPhpdocParseType(i)
    \/ Construct(i)
    \/ Parse(i)
    \/ Return(i)
    \/ CallParsePhpDoc(i)
    \/ CallFindTagInPhpdoc(i)
    \/ CallIsTagInPhpdoc(i)

SpecCalls == InitCalls /\ [][NextCalls]_vars

-----------------------------------------------------------------------------
(* Class runs: the type text is a few pieces out of the names of registered  *)
(* and of unregistered classes and the signs of the grammar                  *)

MaxClassPieces == 4

ClassPieces == { <<"A">>, <<"B">>, <<"C">>, <<"i", "n", "t">>, <<"|">>, <<"[", "]">>, <<"(">>, <<")">> }

InitClass ==
  /\ \E n \in 0..MaxClassPieces : \E ps \in [1..n -> ClassPieces] :
       /\ type_str = Concat(ps)
       /\ phpdoc = TypePrefix \o Concat(ps)
  /\ stage_line = 0
  /\ NoContext
  /\ Results0

NextClass == ParseFromTypeString \/ PhpdocParseType

SpecClass == InitClass /\ [][NextClass]_vars

-----------------------------------------------------------------------------
(* Position runs: the type text is a few pieces out of all the signs of the  *)
(* grammar, in any order; the comment body holds the text behind a tag       *)

MaxPosPieces == 3

PosPieces == {
  <<"i", "n", "t">>, <<"A">>, <<"[", "]">>, <<"|">>, <<"(">>, <<")">>, <<"t", "u", "p", "l", "e", "<">>, <<">">>,
  <<"@", "t", "l", "\\">>, <<" ", ".", ".", ".">>, <<"\n", "*", "@">> }

InitPos ==
  /\ \E n \in 0..MaxPosPieces : \E ps \in [1..n -> PosPieces] :
       /\ type_str = Concat(ps)
       /\ phpdoc = TypePrefix \o Concat(ps)
  /\ stage_line = 0
  /\ NoContext
  /\ Results0

NextPos == ParseFromTypeString \/ PhpdocParseType \/ ParsePhpDoc

SpecPos == InitPos /\ [][NextPos]_vars

-----------------------------------------------------------------------------
(* What the claims speak of, defined on the raw text *)

\* the maximal space-free runs of v, in order
RECURSIVE SpaceTokens(_)
SpaceTokens(v) ==
  IF v = <<>> THEN <<>>
  ELSE IF v[1] = " " THEN SpaceTokens(Tail(v))
  ELSE LET sp == Find(v, " ", 0)
       IN  IF sp = Npos THEN <<v>>
           ELSE <<Substr(v, 0, sp)>> \o SpaceTokens(SubstrFrom(v, sp))

\* the positions just behind the space-free runs of v, in order
RECURSIVE SpaceTokenEnds(_, _)
SpaceTokenEnds(v, from) ==
  LET b == SkipSpaces(v, from)
      e == Find(v, " ", b)
  IN  IF b >= Len(v) THEN <<>>
      ELSE IF e = Npos THEN <<Len(v)>>
      ELSE <<e>> \o SpaceTokenEnds(v, e)

\* at pos the value reads: one space, three dots, a dollar and one more character
VariadicMarkerAt(v, pos) ==
  /\ Len(v) >= pos + 6
  /\ SubSeq(v, pos + 1, pos + 5) = <<" ", ".", ".", ".", "$">>

\* a variadic marker directly follows the first or the second token of v
HasVariadicMarker(v) ==
  \E k \in 1..2 : k <= Len(SpaceTokenEnds(v, 0)) /\ VariadicMarkerAt(v, SpaceTokenEnds(v, 0)[k])

\* the value of the single @var tag of a tokenizer run
TokValue == SubstrFrom(phpdoc, Len(TokPrefix))

\* the value holds a '$' token and a token without '$' in front, in either order
OneVarOneType(v) ==
  /\ Len(SpaceTokens(v)) >= 2
  /\ StartsWithDollar(SpaceTokens(v)[1]) /= StartsWithDollar(SpaceTokens(v)[2])

\* the '$' token among the first two, and the other one
VarToken(v) ==
  IF StartsWithDollar(SpaceTokens(v)[1]) THEN SpaceTokens(v)[1] ELSE SpaceTokens(v)[2]
TypeToken(v) ==
  IF StartsWithDollar(SpaceTokens(v)[1]) THEN SpaceTokens(v)[2] ELSE SpaceTokens(v)[1]

\* C1 as stated: whenever the value of the tag holds a space-free '$' token and
\* a space-free token without '$', in either order and whatever follows them,
\* find_tag_in_phpdoc returns true, the '$' token without its '$' as the
\* variable name and the other token as the type text.
C1_OrderIndependence_Original ==
  (pc = "find_tag_in_phpdoc" /\ OneVarOneType(TokValue)) =>
     /\ found
     /\ out_var_name = Tail(VarToken(TokValue))
     /\ out_type_str = TypeToken(TokValue)

\* C1 amended: the same, provided neither of the two tokens is directly
\* followed by a variadic marker (one space, three dots, '$' and at least one
\* more character), which the tokenizer glues to the token in front of it.
C1_OrderIndependence ==
  (pc = "find_tag_in_phpdoc" /\ OneVarOneType(TokValue) /\ ~HasVariadicMarker(TokValue)) =>
     /\ found
     /\ out_var_name = Tail(VarToken(TokValue))
     /\ out_type_str = TypeToken(TokValue)

\* the type token comes first, spaces surround the tokens and text follows them
C1_Witness ==
  /\ pc = "find_tag_in_phpdoc"
  /\ OneVarOneType(TokValue) /\ ~HasVariadicMarker(TokValue)
  /\ Len(SpaceTokens(TokValue)) = 3
  /\ StartsWithDollar(SpaceTokens(TokValue)[2])
  /\ TokValue[1] = " "
  /\ out_var_name = <<"a">>

\* C2: when neither of the two tokens the tokenizer returns starts with '$',
\* the type text is the first space-free run of the value and nothing after it,
\* and the variable name is empty; when the value holds the single token
\* '$name' the variable name is name and the type text is empty; when the value
\* is empty or all spaces the lookup still succeeds, with both outputs empty.
C2_TrailingProse ==
  LET v  == TokValue
      a1 == get_value_token(v, 0)
      a2 == get_value_token(v, Len(a1))
      t  == SpaceTokens(v)
  IN  pc = "find_tag_in_phpdoc" =>
        /\ found
        /\ (t /= <<>> /\ ~StartsWithDollar(a1) /\ ~StartsWithDollar(a2)) =>
              (out_type_str = t[1] /\ out_var_name = <<>>)
        /\ (Len(t) = 1 /\ StartsWithDollar(t[1])) =>
              (out_var_name = Tail(t[1]) /\ out_type_str = <<>>)
        /\ t = <<>> => (out_var_name = <<>> /\ out_type_str = <<>>)

\* a type followed by two words of prose
C2_Witness ==
  /\ pc = "find_tag_in_phpdoc"
  /\ Len(SpaceTokens(TokValue)) = 3
  /\ \A k \in 1..3 : ~StartsWithDollar(SpaceTokens(TokValue)[k])
  /\ ~HasVariadicMarker(TokValue)
  /\ out_type_str = SpaceTokens(TokValue)[1]
  /\ out_var_name = <<>>

-----------------------------------------------------------------------------
(* The comment body read as text: raw lines, line markers, logical lines *)

\* the pieces of doc between its newlines
RECURSIVE RawLines(_)
RawLines(doc) ==
  LET nl == Find(doc, "\n", 0)
  IN  IF nl = Npos THEN <<doc>>
      ELSE <<Substr(doc, 0, nl)>> \o RawLines(SubstrFrom(doc, nl + 1))

RECURSIVE DropBlanks(_)
DropBlanks(t) == IF t /= <<>> /\ IsBlank(t[1]) THEN DropBlanks(Tail(t)) ELSE t

\* on some line a character other than space, tab and '*' comes before the marker
StrayChar(doc) ==
  \E i \in 1..Len(RawLines(doc)) :
    LET t == DropBlanks(RawLines(doc)[i]) IN t /= <<>> /\ t[1] /= "*"

\* every line has its marker; the last one may instead hold blanks only
WellFormed(doc) ==
  \A i \in 1..Len(RawLines(doc)) :
    LET t == DropBlanks(RawLines(doc)[i])
    IN  IF t = <<>> THEN i = Len(RawLines(doc)) ELSE t[1] = "*"

\* a raw line without its marker and the blanks around the marker
LogicalLine(raw) ==
  IF DropBlanks(raw) = <<>> THEN <<>> ELSE DropBlanks(Tail(DropBlanks(raw)))

LogicalLines(doc) == [i \in 1..Len(RawLines(doc)) |-> LogicalLine(RawLines(doc)[i])]

BeginsWithAt(line) == line /= <<>> /\ line[1] = "@"

\* the indices of the logical lines that begin with '@', ascending
RECURSIVE AtLinesFrom(_, _)
AtLinesFrom(ls, i) ==
  IF i > Len(ls) THEN <<>>
  ELSE IF BeginsWithAt(ls[i]) THEN <<i>> \o AtLinesFrom(ls, i + 1)
  ELSE AtLinesFrom(ls, i + 1)

AtLines(doc) == AtLinesFrom(LogicalLines(doc), 1)

\* an '@' line up to its first space, and what follows that space
NameOf(line) == SpaceTokens(line)[1]
RestOf(line) == SubSeq(line, Len(NameOf(line)) + 2, Len(line))

IsPrefix(a, b) == Len(a) <= Len(b) /\ SubSeq(b, 1, Len(a)) = a

\* the lines lo..hi, each with one space in front, written one after the other
RECURSIVE Continuation(_, _, _)
Continuation(ls, lo, hi) ==
  IF lo > hi THEN <<>> ELSE <<" ">> \o ls[lo] \o Continuation(ls, lo + 1, hi)

\* every kind a tag can have
AllKinds == {e[2] : e \in str2doc_type} \cup {"unknown"}

\* the tags of one kind, in the order the extractor returns them
OfKind(tgs, kind) == SelectSeq(tgs, LAMBDA t : t.type = kind)

\* C3: for N >= 0 the lookup succeeds exactly when the comment holds at least
\* N+1 tags of the requested kind; it then returns the tokens of the N-th of
\* them (0-based, source order), tags of other kinds not counting; a comment
\* with only unrecognized tags or only free text holds no tag of a recognized
\* kind, so the lookup fails.
C3_OccurrenceIndex ==
  LET tgs == parse_php_doc(phpdoc, stage_line)
      m   == OfKind(tgs, doc_type)
  IN  (pc = "find_tag_in_phpdoc" /\ offset >= 0) =>
        /\ found <=> Len(m) >= offset + 1
        /\ found => /\ out_var_name = SplitTag(m[offset + 1]).out_var_name
                    /\ out_type_str = SplitTag(m[offset + 1]).out_type_str
        /\ (doc_type /= "unknown" /\ \A k \in 1..Len(tgs) : tgs[k].type = "unknown") => ~found

\* the second @var tag is asked for and a tag of another kind stands between the two
C3_Witness ==
  /\ pc = "find_tag_in_phpdoc" /\ offset = 1 /\ doc_type = "var" /\ found
  /\ phpdoc = JoinLines(<<<<"*", " ", "@", "v", "a", "r", " ", "$", "a", " ", "A">>, <<"*", " ", "@", "p", "a", "r", "a", "m", " ", "$", "a", "a", " ", "A">>, <<" ", "*", "@", "t", "y", "p", "e", " ", "B", " ", "$", "b", " ">>>>)
  /\ out_var_name = <<"b">> /\ out_type_str = <<"B">>

\* C4: a character other than space, tab and the marker in front of a line's
\* marker makes parse_php_doc raise its error and return the empty sequence, so
\* that both lookups return false, whatever kind is asked for.
C4_MalformedBlock ==
  StrayChar(phpdoc) =>
    /\ pc /= "start" => errors = <<ErrPhpDoc>>
    /\ pc = "parse_php_doc" => tags = <<>>
    /\ pc \in {"find_tag_in_phpdoc", "is_tag_in_phpdoc"} => ~found
    /\ \A kind \in AllKinds :
         /\ ~is_tag_in_phpdoc(phpdoc, kind, stage_line)
         /\ ~find_tag_in_phpdoc(phpdoc, kind, 0, stage_line).found

\* a well-formed line with a tag is followed by a line whose marker is missing
C4_Witness ==
  /\ pc = "parse_php_doc" /\ tags = <<>> /\ errors = <<ErrPhpDoc>>
  /\ phpdoc = <<"*", "@", "a", "\n", "a">>

\* C5: for a well-formed body the result is the pseudo-tag with the empty name
\* followed by one tag per logical line that begins with '@', in source order;
\* the name of each is its line up to the first space and its value begins
\* with everything behind that space.
C5_OneTagPerAtLine ==
  LET ls == LogicalLines(phpdoc)
      at == AtLines(phpdoc)
  IN  (pc = "parse_php_doc" /\ WellFormed(phpdoc)) =>
        /\ errors = <<>>
        /\ Len(tags) = 1 + Len(at)
        /\ tags[1].name = <<>>
        /\ \A k \in 1..Len(at) :
             /\ tags[k + 1].name = NameOf(ls[at[k]])
             /\ IsPrefix(RestOf(ls[at[k]]), tags[k + 1].value)

\* a tag with a name and a value behind a blank-padded marker
C5_Witness ==
  /\ pc = "parse_php_doc" /\ WellFormed(phpdoc)
  /\ phpdoc = <<" ", "*", "@", " ", "a">>
  /\ Len(tags) = 2
  /\ tags[2].name = <<"@">> /\ tags[2].value = <<"a">>

\* C6: the value of a tag is what its '@' line holds behind the name, followed
\* by every later line up to the next '@' line, each with one space in front;
\* the lines in front of the first '@' line make up the value of the pseudo-tag.
C6_ContinuationLines ==
  LET ls == LogicalLines(phpdoc)
      at == AtLines(phpdoc)
      nx(k) == IF k < Len(at) THEN at[k + 1] - 1 ELSE Len(ls)
  IN  (pc = "parse_php_doc" /\ WellFormed(phpdoc)) =>
        /\ Len(tags) = 1 + Len(at)
        /\ tags[1].value = Continuation(ls, 1, nx(0))
        /\ \A k \in 1..Len(at) :
             tags[k + 1].value = RestOf(ls[at[k]]) \o Continuation(ls, at[k] + 1, nx(k))

\* free text in front of the first tag and a continuation line behind it
C6_Witness ==
  /\ pc = "parse_php_doc"
  /\ phpdoc = JoinLines(<<<<"*", " ", "t", "e", "x", "t">>, <<"*", " ", "@", "v", "a", "r", " ", "$", "a", " ", "A">>, <<"*", " ", "t", "e", "x", "t">>>>)
  /\ Len(tags) = 2
  /\ tags[1].value = <<" ", "t", "e", "x", "t">>
  /\ tags[2].value = <<"$", "a", " ", "A", " ", "t", "e", "x", "t">>

\* C7: the kind of a tag is looked up from its whole name when the tag starts:
\* '@var' and '@type' give var, '@return' and '@returns' give returns, a name
\* that is not in the table gives unknown, and such a tag is kept with its name
\* and its value; lines that continue a tag leave its kind alone.
C7_KindByExactName ==
  LET ls == LogicalLines(phpdoc)
      at == AtLines(phpdoc)
  IN  (pc = "parse_php_doc" /\ WellFormed(phpdoc)) =>
        /\ Len(tags) = 1 + Len(at)
        /\ \A k \in 1..Len(at) :
             LET nm == NameOf(ls[at[k]])
                 t  == tags[k + 1]
             IN  /\ t.name = nm
                 /\ IsPrefix(RestOf(ls[at[k]]), t.value)
                 /\ nm \in {<<"@", "v", "a", "r">>, <<"@", "t", "y", "p", "e">>} => t.type = "var"
                 /\ nm \in {<<"@", "r", "e", "t", "u", "r", "n">>, <<"@", "r", "e", "t", "u", "r", "n", "s">>} => t.type = "returns"
                 /\ nm = <<"@", "p", "a", "r", "a", "m">> => t.type = "param"
                 /\ nm \notin {e[1] : e \in str2doc_type} => t.type = "unknown"

\* '@Var' and '@nothing' are kept as unknown tags, '@returns' with a continuation line is returns
C7_Witness ==
  /\ pc = "parse_php_doc"
  /\ phpdoc = JoinLines(<<<<"*", "@", "V", "a", "r", " ", "$", "c">>, <<"*", " ", "@", "r", "e", "t", "u", "r", "n", "s", " ", "i", "n", "t">>, <<"*", " ", "t", "e", "x", "t">>>>)
  /\ Len(tags) = 3
  /\ tags[2].type = "unknown" /\ tags[2].name = <<"@", "V", "a", "r">> /\ tags[2].value = <<"$", "c">>
  /\ tags[3].type = "returns" /\ tags[3].value = <<"i", "n", "t", " ", "t", "e", "x", "t">>

\* C8: is_tag_in_phpdoc returns true exactly when the sequence parse_php_doc
\* returns for the same body holds a tag of the kind, and so does
\* find_tag_in_phpdoc at offset 0.
C8_ExistenceConsistent ==
  LET tgs == parse_php_doc(phpdoc, stage_line)
      has == \E k \in 1..Len(tgs) : tgs[k].type = doc_type
  IN  /\ pc = "is_tag_in_phpdoc" => (found <=> has)
      /\ (pc = "find_tag_in_phpdoc" /\ offset = 0) => (found <=> has)

\* the only tag of the kind is the last of three
C8_Witness ==
  /\ pc = "is_tag_in_phpdoc" /\ doc_type = "returns" /\ found
  /\ phpdoc = JoinLines(<<<<"*", " ", "t", "e", "x", "t">>, <<"*", " ", "@", "v", "a", "r", " ", "$", "a", " ", "A">>, <<"*", "@", "r", "e", "t", "u", "r", "n">>>>)

-----------------------------------------------------------------------------
(* The type text read by the grammar *)

\* the top-level type expression of the type text, and what is left behind it
TopExpr == parse_type_expression(type_str, 0, Ctx(Nul))
LeftOver == SubstrFrom(type_str, TopExpr.pos)

\* C9: parse_from_type_string returns a tree only with the scan position at the
\* end of the input; when the top-level expression parses and something other
\* than the variadic suffix is left behind it, the parse raises 'something left
\* at the end' and returns no tree, as it does for 'int ', 'int|string world'
\* and 'A[]?'.
C9_FullConsumption ==
  pc = "parse_from_type_string" =>
    /\ res.v /= NullVertex => res.pos = Len(type_str)
    /\ (TopExpr.v /= NullVertex /\ LeftOver \notin {<<>>, <<" ", ".", ".", ".">>}) =>
          (res.v = NullVertex /\ errors = TopExpr.errs \o <<ErrSomethingLeft>>)
    /\ type_str \in {<<"i", "n", "t", " ">>, <<"i", "n", "t", "|", "s", "t", "r", "i", "n", "g", " ", "w", "o", "r", "l", "d">>, <<"A", "[", "]", "?">>} =>
          (res.v = NullVertex /\ errors = <<ErrSomethingLeft>>)

\* a union followed by a word of prose
C9_Witness ==
  /\ pc = "parse_from_type_string"
  /\ type_str = <<"i", "n", "t", "|", "s", "t", "r", "i", "n", "g", " ", "w", "o", "r", "l", "d">>
  /\ res.v = NullVertex /\ res.pos = 10
  /\ errors = <<ErrSomethingLeft>>

\* C10 as stated: the lookup on '@type hello world' returns the type text
\* 'hello' without an error, and parsing 'hello world' as a type fails with
\* 'something left at the end'.
C10_HelloWorld_Original ==
  type_str = <<"h", "e", "l", "l", "o", " ", "w", "o", "r", "l", "d">> =>
    /\ pc = "find_tag_in_phpdoc" =>
         (found /\ out_type_str = <<"h", "e", "l", "l", "o">> /\ out_var_name = <<>> /\ errors = <<>>)
    /\ pc = "parse_from_type_string" =>
         (res.v = NullVertex /\ ErrSomethingLeft \in {errors[k] : k \in 1..Len(errors)})

\* C10 amended: the lookup on '@type hello world' returns the type text 'hello'
\* without an error, and parsing 'hello world' as a type fails at its first
\* character with 'Unknown type name', 'hello' being neither a keyword nor a
\* class name.
C10_HelloWorld ==
  type_str = <<"h", "e", "l", "l", "o", " ", "w", "o", "r", "l", "d">> =>
    /\ pc = "find_tag_in_phpdoc" =>
         (found /\ out_type_str = <<"h", "e", "l", "l", "o">> /\ out_var_name = <<>> /\ errors = <<>>)
    /\ pc = "parse_from_type_string" =>
         (res.v = NullVertex /\ res.pos = 0 /\ errors = <<ErrUnknownTypeName>>)

\* 'hello world' was handed to the grammar
C10_Witness ==
  /\ pc = "parse_from_type_string"
  /\ type_str = <<"h", "e", "l", "l", "o", " ", "w", "o", "r", "l", "d">>
  /\ res.v = NullVertex
  /\ errors /= <<>>

-----------------------------------------------------------------------------
(* The type text read as a union: its members are the pieces between the     *)
(* '|' characters that stand outside every bracket                           *)

ArrayOf(t) == TypeExprType("tp_array", <<t>>)
Union(a, b) == TypeExprLca(a, b)
Prim(type) == create_type_help_vertex(type)
ClassRef(klass) == create_type_help_class_vertex(klass)

Openers == {"(", "<"}
Closers == {")", ">"}

RECURSIVE SplitTop(_, _, _, _, _)
SplitTop(s, i, depth, cur, acc) ==
  IF i >= Len(s) THEN Append(acc, cur)
  ELSE LET c == At(s, i)
       IN  IF c = "|" /\ depth = 0
           THEN SplitTop(s, i + 1, depth, <<>>, Append(acc, cur))
           ELSE SplitTop(s, i + 1,
                         IF c \in Openers THEN depth + 1
                         ELSE IF c \in Closers /\ depth > 0 THEN depth - 1 ELSE depth,
                         Append(cur, c), acc)

MembersOf(s) == SplitTop(s, 0, 0, <<>>, <<>>)
Members == MembersOf(type_str)

\* a member read on its own, and whether that reading takes all of it
MemberTree(m) == parse_type_array(m, 0, Ctx(Nul))
WholeMember(m) == MemberTree(m).v /= NullVertex /\ MemberTree(m).pos = Len(m)
AllWhole == \A i \in 1..Len(Members) : WholeMember(Members[i])

\* an expression read on its own, and whether that reading takes all of it
ExprTree(u) == parse_type_expression(u, 0, Ctx(Nul))
WholeExpr(u) == ExprTree(u).v /= NullVertex /\ ExprTree(u).pos = Len(u)

\* the left-leaning chain over the trees of the first n members
RECURSIVE LeftChain(_, _)
LeftChain(ms, n) ==
  IF n = 1 THEN MemberTree(ms[1]).v
  ELSE Union(LeftChain(ms, n - 1), MemberTree(ms[n]).v)

EndsWithPair(m) == Len(m) > 2 /\ SubstrFrom(m, Len(m) - 2) = <<"[", "]">>
WithoutPair(m) == Substr(m, 0, Len(m) - 2)

\* '(' u ')[]' with u an expression: the text u
IsParenArray(s) ==
  Len(s) > 4 /\ s[1] = "(" /\ SubstrFrom(s, Len(s) - 3) = <<")", "[", "]">>
InParenArray(s) == Substr(s, 1, Len(s) - 4)

\* C11: the array suffix binds tighter than the union and parentheses override
\* it. With two or more members that each read whole, the last one ending in
\* '[]', the tree is the union of the members in front with the array of the
\* last member's base, never the array of the union; '(' u ')[]' is the array
\* of u's tree; a parenthesized union stays one member of the union around it;
\* and a '(' whose expression is not followed by ')' fails with 'unmatching ()'.
C11_ArrayBindsTighter ==
  pc = "parse_from_type_string" =>
    LET n == Len(Members)
        last == Members[n]
    IN  /\ (n >= 2 /\ AllWhole /\ EndsWithPair(last) /\ WholeMember(WithoutPair(last))) =>
              /\ res.v = Union(LeftChain(Members, n - 1), ArrayOf(MemberTree(WithoutPair(last)).v))
              /\ res.v.op = "op_type_expr_lca"
        /\ (IsParenArray(type_str) /\ WholeExpr(InParenArray(type_str))) =>
              res.v = ArrayOf(ExprTree(InParenArray(type_str)).v)
        /\ (n >= 2 /\ AllWhole) => res.v.args[2] = MemberTree(last).v
        /\ type_str = <<"A", "|", "B", "[", "]">> =>
              res.v = Union(ClassRef(<<"A">>), ArrayOf(ClassRef(NullClass)))
        /\ type_str = <<"(", "A", "|", "B", ")", "[", "]">> =>
              res.v = ArrayOf(Union(ClassRef(<<"A">>), ClassRef(NullClass)))
        /\ type_str = <<"s", "t", "r", "i", "n", "g", "|", "(", "f", "a", "l", "s", "e", "|", "i", "n", "t", ")", "[", "]">> =>
              res.v = Union(Prim("tp_string"), ArrayOf(Union(Prim("tp_False"), Prim("tp_int"))))
        /\ (type_str /= <<>> /\ type_str[1] = "("
            /\ parse_type_expression(type_str, 1, Ctx(Nul)).v /= NullVertex
            /\ LET p == parse_type_expression(type_str, 1, Ctx(Nul)).pos
               IN  ~(p < Len(type_str) /\ At(type_str, p) = ")")) =>
              /\ res.v = NullVertex
              /\ errors[Len(errors)] = ErrUnmatchingParen

\* a union whose last member is a parenthesized union with the array suffix
C11_Witness ==
  /\ pc = "parse_from_type_string"
  /\ type_str = <<"s", "t", "r", "i", "n", "g", "|", "(", "f", "a", "l", "s", "e", "|", "i", "n", "t", ")", "[", "]">>
  /\ res.v = Union(Prim("tp_string"), ArrayOf(Union(Prim("tp_False"), Prim("tp_int"))))
  /\ errors = <<>>

\* C12: unions are left-associative. A type text of n >= 2 members 'T1|...|Tn'
\* that each read whole parses to the left-leaning chain
\* Union(...Union(Union(T1, T2), T3)..., Tn): the members keep their source
\* order and the chain holds exactly n-1 Union nodes of this level.
C12_LeftAssociative ==
  (pc = "parse_from_type_string" /\ Len(Members) >= 2 /\ AllWhole) =>
    /\ res.v = LeftChain(Members, Len(Members))
    /\ res.pos = Len(type_str)
    /\ type_str = <<"i", "n", "t", "|", "s", "t", "r", "i", "n", "g", "|", "A">> =>
         res.v = Union(Union(Prim("tp_int"), Prim("tp_string")), ClassRef(<<"A">>))

\* three different members, the last one an array
C12_Witness ==
  /\ pc = "parse_from_type_string"
  /\ type_str = <<"s", "t", "r", "i", "n", "g", "|", "A", "|", "B", "[", "]">>
  /\ res.v = Union(Union(Prim("tp_string"), ClassRef(<<"A">>)), ArrayOf(ClassRef(NullClass)))

-----------------------------------------------------------------------------
(* The type text read as a simple type and the brackets behind it *)

TopSimple == parse_simple_type(type_str, 0, Ctx(Nul))
Brackets == SubstrFrom(type_str, TopSimple.pos)

\* the number of '[]' pairs the text b starts with
RECURSIVE LeadingPairs(_)
LeadingPairs(b) ==
  IF Len(b) >= 2 /\ b[1] = "[" /\ b[2] = "]" THEN 1 + LeadingPairs(SubstrFrom(b, 2)) ELSE 0

BehindPairs == SubstrFrom(Brackets, 2 * LeadingPairs(Brackets))

\* k ArrayOf nodes around t
RECURSIVE Nested(_, _)
Nested(k, t) == IF k = 0 THEN t ELSE ArrayOf(Nested(k - 1, t))

\* C13: array suffixes nest. A simple type followed by k >= 0 consecutive
\* '[]' pairs parses to k nested ArrayOf nodes around the simple type, and a
\* '[' that is not directly followed by ']' (also as the last character) makes
\* the parse fail with 'unmatching []'.
C13_ArraySuffixNests ==
  (pc = "parse_from_type_string" /\ TopSimple.v /= NullVertex) =>
    LET k == LeadingPairs(Brackets)
    IN  /\ BehindPairs = <<>> =>
              (res.v = Nested(k, TopSimple.v) /\ res.pos = Len(type_str) /\ errors = <<>>)
        /\ (BehindPairs = <<>> \/ BehindPairs[1] /= "[") =>
              /\ MemberTree(type_str).v = Nested(k, TopSimple.v)
              /\ MemberTree(type_str).pos = TopSimple.pos + 2 * k
        /\ (BehindPairs /= <<>> /\ BehindPairs[1] = "[") =>
              /\ res.v = NullVertex /\ errors = <<ErrUnmatchingBracket>>
              /\ MemberTree(type_str).v = NullVertex
        /\ type_str = <<"A", "[", "]", "[", "]">> => res.v = ArrayOf(ArrayOf(ClassRef(<<"A">>)))

\* three pairs behind a class name
C13_Witness ==
  /\ pc = "parse_from_type_string"
  /\ type_str = <<"A", "[", "]", "[", "]", "[", "]">>
  /\ res.v = ArrayOf(ArrayOf(ArrayOf(ClassRef(<<"A">>))))

\* how often the raw-bool lint stands in a list of diagnostics
RECURSIVE LintCount(_)
LintCount(errs) ==
  IF errs = <<>> THEN 0
  ELSE (IF Head(errs) = ErrRawBool THEN 1 ELSE 0) + LintCount(Tail(errs))

\* the lints raised inside the first n members, each read on its own
RECURSIVE InnerLints(_, _)
InnerLints(ms, n) ==
  IF n = 0 THEN 0 ELSE InnerLints(ms, n - 1) + LintCount(MemberTree(ms[n]).errs)

\* the text is a union of two or more members, one of them exactly 'bool'
RawBoolUnion ==
  Len(Members) >= 2 /\ \E i \in 1..Len(Members) : Members[i] = kw_bool

\* C14: the raw-bool lint. When every member reads whole, the level of the
\* union raises 'use |false instead' exactly when it has two or more members
\* and the text of one of them is exactly 'bool' (lints raised inside the
\* members aside); 'int|bool' and 'bool|int' succeed with the lint,
\* 'int|boolean' and a lone 'bool' succeed without it, and the tree returned is
\* the one returned without the lint.
C14_RawBoolLint ==
  (pc = "parse_from_type_string" /\ AllWhole) =>
    /\ res.v /= NullVertex
    /\ res.v = LeftChain(Members, Len(Members))
    /\ LintCount(errors) =
         (IF RawBoolUnion THEN 1 ELSE 0) + InnerLints(Members, Len(Members))
    /\ type_str = <<"i", "n", "t", "|", "b", "o", "o", "l">> =>
         (res.v = Union(Prim("tp_int"), Prim("tp_bool")) /\ errors = <<ErrRawBool>>)
    /\ type_str = <<"b", "o", "o", "l", "|", "i", "n", "t">> =>
         (res.v = Union(Prim("tp_bool"), Prim("tp_int")) /\ errors = <<ErrRawBool>>)
    /\ type_str = <<"i", "n", "t", "|", "b", "o", "o", "l", "e", "a", "n">> =>
         (res.v = Union(Prim("tp_int"), Prim("tp_bool")) /\ errors = <<>>)
    /\ type_str = <<"b", "o", "o", "l">> => (res.v = Prim("tp_bool") /\ errors = <<>>)

\* a union with a raw bool member came back with its tree and the lint
C14_Witness ==
  /\ pc = "parse_from_type_string"
  /\ type_str = <<"i", "n", "t", "|", "b", "o", "o", "l", "|", "A">>
  /\ res.v = Union(Union(Prim("tp_int"), Prim("tp_bool")), ClassRef(<<"A">>))
  /\ errors = <<ErrRawBool>>

-----------------------------------------------------------------------------
(* The variadic suffix in the type text *)

\* the positions at which ' ...' stands in the type text
SuffixPositions == {i \in 0..Len(type_str) : StartsAt(type_str, i, varg_dots)}

\* ' ...' at position i is all that is left behind the top-level expression
IsWholeSuffix(i) ==
  TopExpr.v /= NullVertex /\ i = TopExpr.pos /\ i + Len(varg_dots) = Len(type_str)

\* C15: the variadic suffix is a whole-string transform. When the text left
\* behind the top-level type expression is exactly ' ...', parse_from_type_string
\* consumes it and returns ArrayOf(parsed type): 'int ...' gives ArrayOf(int),
\* 'A[] ...' gives ArrayOf(ArrayOf(A)). A ' ...' anywhere else, inside
\* parentheses or parameterized arguments or with a further character behind
\* it, makes the parse fail.
C15_VariadicWholeString ==
  pc = "parse_from_type_string" =>
    /\ (TopExpr.v /= NullVertex /\ LeftOver = varg_dots) =>
          /\ res.v = ArrayOf(TopExpr.v)
          /\ res.pos = Len(type_str)
          /\ errors = TopExpr.errs
    /\ (\E i \in SuffixPositions : ~IsWholeSuffix(i)) =>
          (res.v = NullVertex /\ errors /= <<>>)
    /\ type_str = <<"i", "n", "t", " ", ".", ".", ".">> => res.v = ArrayOf(Prim("tp_int"))
    /\ type_str = <<"A", "[", "]", " ", ".", ".", ".">> => res.v = ArrayOf(ArrayOf(ClassRef(<<"A">>)))
    /\ type_str \in {<<"(", "i", "n", "t", " ", ".", ".", ".", ")">>, <<"t", "u", "p", "l", "e", "<", "i", "n", "t", " ", ".", ".", ".", ">">>, <<"i", "n", "t", " ", ".", ".", ".", "i", "n", "t">>, <<"i", "n", "t", " ", ".", ".", ".", " ", ".", ".", ".">>} =>
          res.v = NullVertex

\* the suffix behind an array type
C15_Witness ==
  /\ pc = "parse_from_type_string"
  /\ type_str = <<"A", "[", "]", " ", ".", ".", ".">>
  /\ res.v = ArrayOf(ArrayOf(ClassRef(<<"A">>)))
  /\ res.pos = 7

-----------------------------------------------------------------------------
(* The value of the @param tag of a parameter run and its tokens *)

ParamValue == parse_php_doc(phpdoc, 0)[2].value

\* where the token fetched at chars_offset begins, and the space that ends it
TokenBegin(v, chars_offset) == SkipSpaces(v, chars_offset + SkipSpaces(v, 0))
EndingSpace(v, chars_offset) == Find(v, " ", TokenBegin(v, chars_offset))

\* the space that ends the token fetched at chars_offset starts ' ...$'
EndsAtMarker(v, chars_offset) ==
  /\ TokenBegin(v, chars_offset) < Len(v)
  /\ EndingSpace(v, chars_offset) /= Npos
  /\ StartsAt(v, EndingSpace(v, chars_offset), varg_dots_dollar)

\* the '$' of the marker behind the token fetched at chars_offset has a character behind it
MarkerHasName(v, chars_offset) ==
  Len(v) > EndingSpace(v, chars_offset) + Len(varg_dots_dollar)

\* the token from its begin through the three dots of the marker
ThroughDots(v, chars_offset) ==
  Substr(v, TokenBegin(v, chars_offset),
         EndingSpace(v, chars_offset) + Len(varg_dots) - TokenBegin(v, chars_offset))

FirstToken(v) == get_value_token(v, 0)
SecondToken(v) == get_value_token(v, Len(FirstToken(v)))

\* C16 as stated: whenever the space that ends a token is the start of ' ...$',
\* the token returned extends through the three dots and stops before the '$',
\* and the token fetched at the length of the first token begins with '$'.
C16_VariadicMarker_Original ==
  pc = "find_tag_in_phpdoc" =>
    LET v == ParamValue
    IN  /\ \A off \in {0, Len(FirstToken(v))} :
             EndsAtMarker(v, off) => get_value_token(v, off) = ThroughDots(v, off)
        /\ EndsAtMarker(v, 0) => StartsWithDollar(SecondToken(v))

\* C16 amended: whenever the space that ends a token is the start of ' ...$'
\* and the '$' is not the last character of the value, the token returned
\* extends through the three dots and stops before the '$', and the token
\* fetched at the length of the first token begins with '$'; so
\* find_tag_in_phpdoc on '@param T ...$a' returns the name 'a' and the type
\* text 'T ...'. With the '$' as the last character the token ends at the space.
C16_VariadicMarker ==
  pc = "find_tag_in_phpdoc" =>
    LET v == ParamValue
    IN  /\ \A off \in {0, Len(FirstToken(v))} :
             EndsAtMarker(v, off) =>
               get_value_token(v, off) =
                 IF MarkerHasName(v, off) THEN ThroughDots(v, off)
                 ELSE Substr(v, TokenBegin(v, off), EndingSpace(v, off) - TokenBegin(v, off))
        /\ (EndsAtMarker(v, 0) /\ MarkerHasName(v, 0)) =>
             /\ StartsWithDollar(SecondToken(v))
             /\ ~StartsWithDollar(FirstToken(v)) =>
                  (found /\ out_type_str = ThroughDots(v, 0) /\ out_var_name = Tail(SecondToken(v)))
        /\ phpdoc = <<"*", " ", "@", "p", "a", "r", "a", "m", " ", "T", " ", ".", ".", ".", "$", "a">> =>
             (found /\ out_var_name = <<"a">> /\ out_type_str = <<"T", " ", ".", ".", ".">>)

\* the lookup on '@param T ...$a'
C16_Witness ==
  /\ pc = "find_tag_in_phpdoc"
  /\ phpdoc = <<"*", " ", "@", "p", "a", "r", "a", "m", " ", "T", " ", ".", ".", ".", "$", "a">>
  /\ found /\ out_var_name = <<"a">> /\ out_type_str = <<"T", " ", ".", ".", ".">>

-----------------------------------------------------------------------------
(* The class names written in the type text *)

IsNameChar(c) == c \in Upper \cup Lower \cup Digit \cup {"\\", "_"}

RECURSIVE NameRunEnd(_, _)
NameRunEnd(s, i) ==
  IF i < Len(s) /\ IsNameChar(At(s, i)) THEN NameRunEnd(s, i + 1) ELSE i

\* the runs of name characters that begin with a capital or a backslash, in source order
RECURSIVE ClassNamesFrom(_, _)
ClassNamesFrom(s, i) ==
  IF i >= Len(s) THEN <<>>
  ELSE IF ~IsNameChar(At(s, i)) THEN ClassNamesFrom(s, i + 1)
  ELSE LET e == NameRunEnd(s, i)
       IN  IF At(s, i) \in Upper \cup {"\\"}
           THEN <<Substr(s, i, e - i)>> \o ClassNamesFrom(s, e)
           ELSE ClassNamesFrom(s, e)

\* the names among ns that the class table does not hold, in order
RECURSIVE Unregistered(_)
Unregistered(ns) ==
  IF ns = <<>> THEN <<>>
  ELSE (IF resolve_uses(Head(ns)) \in DOMAIN class_table THEN <<>> ELSE <<resolve_uses(Head(ns))>>)
       \o Unregistered(Tail(ns))

\* the number of class-reference nodes of the tree t that carry no class
RECURSIVE NullRefs(_)
RECURSIVE NullRefsIn(_, _)
NullRefs(t) ==
  IF t.op = "op_type_expr_class" THEN (IF t.klass = NullClass THEN 1 ELSE 0)
  ELSE NullRefsIn(t.args, Len(t.args))
NullRefsIn(ts, n) ==
  IF n = 0 THEN 0 ELSE NullRefsIn(ts, n - 1) + NullRefs(ts[n])

\* member texts that follow the grammar, whatever the class table holds
GrammaticalMembers == {
  <<"i", "n", "t">>, <<"b", "o", "o", "l">>, <<"b", "o", "o", "l", "e", "a", "n">>, <<"s", "t", "r", "i", "n", "g">>, <<"A">>, <<"B">>, <<"B", "[", "]">>,
  <<"(", "A", "|", "B", ")", "[", "]">>, <<"(", "f", "a", "l", "s", "e", "|", "i", "n", "t", ")", "[", "]">>, <<"(", "i", "n", "t", "|", "b", "o", "o", "l", ")">> }

AllGrammatical == \A i \in 1..Len(Members) : Members[i] \in GrammaticalMembers

\* C17: class resolution is deferred. A class name of the type text that
\* resolves to a name the class table does not hold does not make
\* parse_from_type_string fail: a text whose members follow the grammar still
\* gives its tree, with one class-reference node per such name, and the
\* resolved names are appended to the unresolved-class list, one entry per
\* occurrence, in source order.
C17_DeferredResolution ==
  (pc = "parse_from_type_string" /\ AllGrammatical) =>
    /\ res.v /= NullVertex
    /\ res.pos = Len(type_str)
    /\ res.unknown = Unregistered(ClassNamesFrom(type_str, 0))
    /\ NullRefs(res.v) = Len(res.unknown)
    /\ ErrNoClass \notin {errors[k] : k \in 1..Len(errors)}
    /\ type_str = <<"B">> => (res.v = ClassRef(NullClass) /\ res.unknown = <<<<"B">>>>)
    /\ type_str = <<"A", "|", "B", "[", "]">> =>
         (res.v = Union(ClassRef(<<"A">>), ArrayOf(ClassRef(NullClass))) /\ res.unknown = <<<<"B">>>>)

\* an unregistered class twice around a registered one
C17_Witness ==
  /\ pc = "parse_from_type_string"
  /\ type_str = <<"B", "|", "A", "|", "B", "[", "]">>
  /\ res.v = Union(Union(ClassRef(NullClass), ClassRef(<<"A">>)), ArrayOf(ClassRef(NullClass)))
  /\ res.unknown = <<<<"B">>, <<"B">>>>
  /\ errors = <<>>

\* a class name of the type text resolves to a registered trait
NamesTrait(s) ==
  \E k \in 1..Len(ClassNamesFrom(s, 0)) :
    LET name == resolve_uses(ClassNamesFrom(s, 0)[k])
    IN  name \in DOMAIN class_table /\ class_table[name]

\* C18: a trait used as a type. When a class name of the type text resolves to
\* a registered trait and the members of the text follow the grammar, the
\* parser raises 'You may not use trait as a type-hint' and aborts the parse:
\* no type tree is returned for the type string.
C18_TraitAborts ==
  (pc \in {"parse_from_type_string", "phpdoc_parse_type"}
   /\ NamesTrait(type_str)
   /\ \A i \in 1..Len(Members) : Members[i] \in GrammaticalMembers \cup {<<"T">>}) =>
    /\ ErrTrait \in {errors[k] : k \in 1..Len(errors)}
    /\ res.v = NullVertex

-----------------------------------------------------------------------------
(* The type text read as a parameterized type: keyword, opening bracket,     *)
(* arguments between the commas outside every inner bracket, closing bracket *)

HeadLen ==
  IF StartsAt(type_str, 0, <<"\\">>) THEN 1 + (IF StartsAt(type_str, 1, <<"t", "u", "p", "l", "e">>) THEN 5 ELSE 6)
  ELSE IF StartsAt(type_str, 0, <<"t", "u", "p", "l", "e">>) THEN 5 ELSE 6

HeadKind ==
  IF StartsAt(type_str, 0, <<"t", "u", "p", "l", "e">>) \/ StartsAt(type_str, 1, <<"t", "u", "p", "l", "e">>)
  THEN "tp_tuple" ELSE "tp_future"

OpenerAt == HeadLen < Len(type_str) /\ At(type_str, HeadLen) \in Openers

\* the position of the bracket that closes the one opened at i, or Npos
RECURSIVE ClosePos(_, _, _)
ClosePos(s, i, depth) ==
  IF i >= Len(s) THEN Npos
  ELSE IF At(s, i) \in Openers THEN ClosePos(s, i + 1, depth + 1)
  ELSE IF At(s, i) \in Closers
       THEN (IF depth = 1 THEN i ELSE ClosePos(s, i + 1, depth - 1))
       ELSE ClosePos(s, i + 1, depth)

Unclosed == OpenerAt /\ ClosePos(type_str, HeadLen, 0) = Npos
ClosedAtEnd == OpenerAt /\ ClosePos(type_str, HeadLen, 0) = Len(type_str) - 1

\* the opening and the closing bracket are of one family
SameFamily ==
  <<At(type_str, HeadLen), At(type_str, Len(type_str) - 1)>> \in {<<"<", ">">>, <<"(", ")">>}

RECURSIVE SplitArgs(_, _, _, _, _)
SplitArgs(s, i, depth, cur, acc) ==
  IF i >= Len(s) THEN Append(acc, cur)
  ELSE LET c == At(s, i)
       IN  IF c = "," /\ depth = 0
           THEN SplitArgs(s, i + 1, depth, <<>>, Append(acc, cur))
           ELSE SplitArgs(s, i + 1,
                          IF c \in Openers THEN depth + 1
                          ELSE IF c \in Closers /\ depth > 0 THEN depth - 1 ELSE depth,
                          Append(cur, c), acc)

\* the texts of the arguments of a parameterized type that is closed at its end
ArgTexts ==
  SplitArgs(Substr(type_str, HeadLen + 1, Len(type_str) - HeadLen - 2), 0, 0, <<>>, <<>>)

AllArgsWhole == \A i \in 1..Len(ArgTexts) : WholeExpr(ArgTexts[i])
SomeArgEmpty == \E i \in 1..Len(ArgTexts) : ArgTexts[i] = <<>>

\* the node of a parameterized type over the trees of its arguments
ParamNode == TypeExprType(HeadKind, [i \in 1..Len(ArgTexts) |-> ExprTree(ArgTexts[i]).v])

\* C19: parameterized types carry a non-empty, ordered argument list. 'tuple',
\* 'future', '\tuple' and '\future' must be followed at once by '<' or '(' or
\* the parse fails; a list of full type expressions between brackets of one
\* family parses, and every parse that succeeds returns the node of the kind
\* tuple or future with one child per comma-separated expression, in source
\* order; an empty list, a trailing comma and an input that ends before the
\* closing bracket fail.
C19_ParameterizedArguments ==
  pc = "parse_from_type_string" =>
    /\ ~OpenerAt => (res.v = NullVertex /\ errors = <<ErrExpectedOpen>>)
    /\ (ClosedAtEnd /\ SameFamily /\ AllArgsWhole) =>
          (res.v = ParamNode /\ res.pos = Len(type_str))
    /\ res.v /= NullVertex =>
          /\ ClosedAtEnd /\ AllArgsWhole
          /\ res.v = ParamNode
          /\ Len(res.v.args) >= 1
    /\ (ClosedAtEnd /\ SomeArgEmpty) => res.v = NullVertex
    /\ Unclosed => res.v = NullVertex
    /\ type_str \in {<<"t", "u", "p", "l", "e", "<", ">">>, <<"t", "u", "p", "l", "e", "<", "i", "n", "t", ",", ">">>, <<"t", "u", "p", "l", "e", "<", "i", "n", "t">>, <<"t", "u", "p", "l", "e">>} => res.v = NullVertex
    /\ type_str = <<"\\", "t", "u", "p", "l", "e", "<", "i", "n", "t", "|", "s", "t", "r", "i", "n", "g", ",", "A", "[", "]", ">">> =>
          res.v = TypeExprType("tp_tuple",
                    <<Union(Prim("tp_int"), Prim("tp_string")), ArrayOf(ClassRef(<<"A">>))>>)

\* a future of two arguments, the first a union, the second parameterized itself
C19_Witness ==
  /\ pc = "parse_from_type_string"
  /\ type_str = <<"f", "u", "t", "u", "r", "e", "(", "i", "n", "t", "|", "s", "t", "r", "i", "n", "g", ",", "f", "u", "t", "u", "r", "e", "<", "A", ">", ")">>
  /\ res.v = TypeExprType("tp_future",
               <<Union(Prim("tp_int"), Prim("tp_string")),
                 TypeExprType("tp_future", <<ClassRef(<<"A">>)>>)>>)
  /\ errors = <<>>

\* C20: bracket families must match in parameterized types. An argument list
\* opened with '<' is accepted only when closed with '>', and one opened with
\* '(' only when closed with ')'; closing with the other family, as in
\* 'tuple<int)' or 'future(int>', is a parse failure.
C20_BracketFamilies ==
  (pc = "parse_from_type_string" /\ ClosedAtEnd /\ ~SameFamily) => res.v = NullVertex

-----------------------------------------------------------------------------
(* The line numbers of the tags *)

\* the line number the logical line with the 0-based index i gets
LineOf(i) ==
  Min(stage_line - (Len(LogicalLines(phpdoc)) - i), stage_line - 2)

\* C21: the line number of a tag is computed back from the declaration line.
\* With the declaration line L known (L > 0), every tag has the line number
\* min(L - (total_logical_lines - i), L - 2), i being the 0-based index of the
\* logical line the tag starts on, also when continuation lines follow the tag.
C21_LineOfStart ==
  (pc = "parse_php_doc" /\ stage_line > 0 /\ WellFormed(phpdoc)) =>
    \A k \in 1..Len(AtLines(phpdoc)) :
      tags[k + 1].line_num = LineOf(AtLines(phpdoc)[k] - 1)

\* C22: the line numbers are bounded. With the declaration line L known
\* (L > 0), every element of the sequence parse_php_doc returns, the pseudo-tag
\* included, has a line number of at most L - 2; with L <= 0 no element gets a
\* line number.
C22_LineBound ==
  pc = "parse_php_doc" =>
    /\ stage_line > 0 => \A k \in 1..Len(tags) : tags[k].line_num <= stage_line - 2
    /\ stage_line <= 0 => \A k \in 1..Len(tags) : tags[k].line_num = NoLine
    /\ stage_line > 0 => tags[Len(tags)].line_num = stage_line - 2

\* the last two lines start a tag each and both are clamped to L - 2
C22_Witness ==
  /\ pc = "parse_php_doc"
  /\ stage_line = 5
  /\ phpdoc = <<"*", "@", "a", "\n", "*", "@", "a", "\n", "*", "@", "v", "a", "r", " ", "x">>
  /\ Len(tags) = 4
  /\ tags[2].line_num = 2 /\ tags[3].line_num = 3 /\ tags[4].line_num = 3

-----------------------------------------------------------------------------
(* The round trip of a type tree through its text *)

\* C23: the type round-trip law. For every type tree built from the
\* constructors of the grammar (primitive, class reference, ArrayOf, Union,
\* tuple and future with arguments; no variadic wrapping), parsing the text
\* the tree serializes to, unions in parentheses where they are array elements
\* or right operands, gives a tree structurally equal to it.
C23_RoundTrip ==
  pc = "parse_from_type_string" =>
    /\ \A p \in TextsOfTrees : p[1] = type_str => res.v = p[2]
    /\ res.pos = Len(type_str)
    /\ errors = <<>>

\* a union whose right operand is a union
C23_Witness ==
  /\ pc = "parse_from_type_string"
  /\ type_str = <<"i", "n", "t", "|", "(", "A", "|", "i", "n", "t", ")">>
  /\ res.v = Union(Prim("tp_int"), Union(ClassRef(<<"A">>), Prim("tp_int")))


-----------------------------------------------------------------------------
\* the text a tag is written back as: the line marker, the name, a space, the value
TagText(t) == <<"*">> \o t.name \o <<" ">> \o t.value

\* the tags the extractor finds in the text of a tag
Reextract(t) == parse_php_doc(TagText(t), stage_line)

\* C24: for every comment body that extracts successfully and every tag of the
\* result, the extractor run again on name + ' ' + value of the tag behind a line
\* marker succeeds and ends in a tag of the same kind; the text of a tag that
\* has a name yields that one tag behind the pseudo-tag, under the same name, and
\* the text of the pseudo-tag yields the pseudo-tag alone
C24_KindKept ==
  (pc = "parse_php_doc" /\ tags /= <<>>) =>
    \A k \in 1..Len(tags) :
      LET r == Reextract(tags[k])
      IN  /\ r /= <<>>
          /\ r[Len(r)].type = tags[k].type
          /\ k = 1 => Len(r) = 1
          /\ k > 1 => Len(r) = 2 /\ r[2].name = tags[k].name

C24_Witness ==
  /\ pc = "parse_php_doc"
  /\ phpdoc = <<"*", " ", "t", "e", "x", "t", "\n", "*", "@", "r", "e", "t", "u", "r", "n", "\n", "*", " ", "t", "e", "x", "t">>
  /\ Len(tags) = 2
  /\ tags[1].value = <<" ", "t", "e", "x", "t">>
  /\ tags[2].type = "returns"
  /\ tags[2].value = <<" ", "t", "e", "x", "t">>
  /\ Reextract(tags[2])[2].type = "returns"

-----------------------------------------------------------------------------
\* the spellings of the primitive types and the type each of them names
PrimitiveSpellings == {
  <<<<"i", "n", "t", "e", "g", "e", "r">>, "tp_int">>, <<<<"i", "n", "t">>, "tp_int">>,
  <<<<"b", "o", "o", "l", "e", "a", "n">>, "tp_bool">>, <<<<"b", "o", "o", "l">>, "tp_bool">>, <<<<"t", "r", "u", "e">>, "tp_bool">>,
  <<<<"f", "l", "o", "a", "t">>, "tp_float">>, <<<<"d", "o", "u", "b", "l", "e">>, "tp_float">>,
  <<<<"f", "a", "l", "s", "e">>, "tp_False">>, <<<<"s", "t", "r", "i", "n", "g">>, "tp_string">>,
  <<<<"m", "i", "x", "e", "d">>, "tp_var">>, <<<<"n", "u", "l", "l">>, "tp_var">>, <<<<"v", "o", "i", "d">>, "tp_void">> }

\* the keywords that do not name a primitive type
OtherSpellings == {
  <<"s", "e", "l", "f">>, <<"f", "u", "t", "u", "r", "e">>, <<"t", "u", "p", "l", "e">>,
  <<"\\", "t", "u", "p", "l", "e">>, <<"\\", "f", "u", "t", "u", "r", "e">>, <<"a", "r", "r", "a", "y">> }

\* the spellings of primitive types that the text has at a position
SpelledAt(s, p) == {e \in PrimitiveSpellings : StartsAt(s, p, e[1])}

\* the longest of them
LongestAt(s, p) ==
  CHOOSE e \in SpelledAt(s, p) : \A f \in SpelledAt(s, p) : Len(f[1]) <= Len(e[1])

\* the position begins with no keyword, no '(' and nothing a class name begins with
StartsNothing(s, p) ==
  /\ p < Len(s)
  /\ SpelledAt(s, p) = {}
  /\ \A w \in OtherSpellings : ~StartsAt(s, p, w)
  /\ At(s, p) \notin Upper \cup {"(", "\\"}
  /\ ~StartsAt(s, p, tl_prefix)

\* what the claim says parse_simple_type does at position p of s
KeywordRule(s, p, r) ==
  /\ p >= Len(s) => r = Ret(NullVertex, p, <<ErrUnexpectedEnd>>, <<>>)
  /\ SpelledAt(s, p) /= {} =>
       r = Ret(Prim(LongestAt(s, p)[2]), p + Len(LongestAt(s, p)[1]), <<>>, <<>>)
  /\ StartsAt(s, p, kw_array) =>
       r = Ret(ArrayOf(Prim("tp_Unknown")), p + 5, <<>>, <<>>)
  /\ StartsNothing(s, p) => r = Ret(NullVertex, p, <<ErrUnknownTypeName>>, <<>>)

\* C25: at every position of the type text a primitive keyword is taken by its
\* longest spelling, gives the type the spelling names and moves the position by
\* the length of the spelling; bare 'array' gives an array of Unknown; a position
\* that begins with no keyword, no '(' and no class name fails with 'Unknown type
\* name', and the end of the text with 'unexpected end'; a call on the text of
\* one keyword, or on the empty text, returns what the rule says for position 0
C25_Keywords ==
  pc = "parse_from_type_string" =>
    /\ \A p \in 0..Len(type_str) : \A c \in OobChars :
         KeywordRule(type_str, p, parse_simple_type(type_str, p, Ctx(c)))
    /\ (\E e \in PrimitiveSpellings : e[1] = type_str) =>
         /\ res.v = Prim(LongestAt(type_str, 0)[2])
         /\ res.pos = Len(type_str)
         /\ errors = <<>>
    /\ type_str = <<>> => res.v = NullVertex /\ errors = <<ErrUnexpectedEnd>>
    /\ StartsNothing(type_str, 0) => res.v = NullVertex /\ errors = <<ErrUnknownTypeName>>

C25_Witness ==
  /\ pc = "parse_from_type_string"
  /\ type_str = <<"i", "n", "t", "e", "g", "e", "r">>
  /\ res.v = Prim("tp_int")
  /\ res.pos = 7
  /\ parse_simple_type(type_str, 3, Ctx(Nul)).errs = <<ErrUnknownTypeName>>

-----------------------------------------------------------------------------
\* what the call of a frame returns and raises when it is run alone, the byte
\* behind the end of its text being c
Alone(f, line, c) ==
  CASE f.fn = "phpdoc_parse_type" ->
         [ret |-> phpdoc_parse_type(f.text, Ctx(c)).v,
          errs |-> phpdoc_parse_type(f.text, Ctx(c)).errs]
    [] f.fn = "parse_php_doc" ->
         [ret |-> parse_php_doc(f.text, line), errs |-> parse_php_doc_errors(f.text)]
    [] f.fn = "find_tag_in_phpdoc" ->
         [ret |-> find_tag_in_phpdoc(f.text, f.kind, 0, line),
          errs |-> parse_php_doc_errors(f.text)]
    [] f.fn = "is_tag_in_phpdoc" ->
         [ret |-> is_tag_in_phpdoc(f.text, f.kind, line),
          errs |-> parse_php_doc_errors(f.text)]

\* C26: whatever the other callers do meanwhile, a call that has returned has
\* returned and raised what it returns and raises when run alone on its own
\* inputs, and the list of unresolved classes a phpdoc_parse_type call sees
\* holds the unregistered class names of its own text and no other
C26_Stateless ==
  \A i \in DOMAIN callers :
    /\ callers[i].pc = "returned" =>
         \E c \in OobChars :
           Alone(callers[i], CallerLine(i), c) = [ret |-> callers[i].ret, errs |-> callers[i].errs]
    /\ (callers[i].fn = "phpdoc_parse_type" /\ callers[i].pc = "line_425") =>
         callers[i].parser.unknown_classes_list = Unregistered(ClassNamesFrom(callers[i].text, 0))
    /\ (callers[i].fn = "phpdoc_parse_type" /\ callers[i].pc = "returned") =>
         callers[i].seen = Unregistered(ClassNamesFrom(callers[i].text, 0))

C26_Witness ==
  /\ callers /= <<>>
  /\ callers[1].fn = "phpdoc_parse_type"
  /\ callers[1].pc = "line_425"
  /\ callers[1].parser.unknown_classes_list = << <<"B">> >>
  /\ callers[2].fn = "phpdoc_parse_type"
  /\ callers[2].pc = "returned"
  /\ callers[2].text = <<"C", "|", "B">>
  /\ callers[2].seen = << <<"C">>, <<"B">> >>
  /\ callers[2].ret = NullVertex
  /\ callers[2].errs = <<ErrNoClass>>


-----------------------------------------------------------------------------
\* what the grammar parse of the type text gives
Grammar == parse_from_type_string(type_str, Ctx(Nul))

\* C27: phpdoc_parse_type returns a tree exactly when the grammar parse gave one
\* and left the list of unresolved classes empty, and then it is that tree; when
\* the list is not empty, be the text grammatical or not, the call adds 'Could
\* not find class in phpdoc' to what the grammar parse raised, names the first
\* class of the list, which is the first unregistered class name of the text,
\* and returns nothing; otherwise it raises what the grammar parse raised
C27_TreeOrNoClass ==
  pc = "phpdoc_parse_type" =>
    /\ res.v /= NullVertex <=> (Grammar.v /= NullVertex /\ Grammar.unknown = <<>>)
    /\ res.v /= NullVertex => res.v = Grammar.v
    /\ Grammar.unknown /= <<>> =>
         /\ res.v = NullVertex
         /\ errors = Append(Grammar.errs, ErrNoClass)
         /\ res.named = Grammar.unknown[1]
         /\ res.named = Unregistered(ClassNamesFrom(type_str, 0))[1]
    /\ Grammar.unknown = <<>> => errors = Grammar.errs /\ res.named = NoName

C27_Witness ==
  /\ pc = "phpdoc_parse_type"
  /\ type_str = <<"C", "|", "B", "[", "]">>
  /\ Grammar.v = Union(ClassRef(NullClass), ArrayOf(ClassRef(NullClass)))
  /\ res.v = NullVertex
  /\ res.unknown = << <<"C">>, <<"B">> >>
  /\ res.named = <<"C">>
  /\ errors = <<ErrNoClass>>

\* the list is not empty although the grammar parse failed behind the class name
C27_FailedBehindClass ==
  /\ pc = "phpdoc_parse_type"
  /\ type_str = <<"B", "|">>
  /\ Grammar.v = NullVertex
  /\ res.unknown = << <<"B">> >>
  /\ errors = <<ErrUnexpectedEnd, ErrNoClass>>

-----------------------------------------------------------------------------
\* a raw line of spaces and tabs only, or of nothing
IsBlankLine(raw) == DropBlanks(raw) = <<>>

LastRawLine(doc) == RawLines(doc)[Len(RawLines(doc))]

\* a newline is met before the marker of some line
NewlineBeforeMarker(doc) ==
  \E i \in 1..(Len(RawLines(doc)) - 1) : IsBlankLine(RawLines(doc)[i])

\* all lines have their marker but the last one, which is blank
EndsInBlankLine(doc) == WellFormed(doc) /\ IsBlankLine(LastRawLine(doc))

\* the body with a bare marker in the place of its last line
WithBareMarker(doc) == Substr(doc, 0, Len(doc) - Len(LastRawLine(doc))) \o <<"*">>

\* the body without its last line and the newline in front of it
WithoutLastLine(doc) == Substr(doc, 0, Len(doc) - Len(LastRawLine(doc)) - 1)

\* C28 (as amended): a newline met before the marker of a line makes parse_php_doc
\* raise its error and return the empty sequence, like any other stray
\* character; a final line of spaces and tabs only is accepted and stands for an
\* empty logical line: the scan yields one logical line per raw line and the
\* tags are those of the body that has a bare marker as its last line
C28_BlankLines ==
  pc = "parse_php_doc" =>
    /\ NewlineBeforeMarker(phpdoc) => tags = <<>> /\ errors = <<ErrPhpDoc>>
    /\ EndsInBlankLine(phpdoc) =>
         /\ tags /= <<>>
         /\ errors = <<>>
         /\ Len(ScanLines(phpdoc, 0, << <<>> >>, FALSE).lines) = Len(RawLines(phpdoc))
         /\ tags = parse_php_doc(WithBareMarker(phpdoc), stage_line)

C28_Witness ==
  /\ pc = "parse_php_doc"
  /\ phpdoc = <<"*", "@", "a", "\n", "\t">>
  /\ errors = <<>>
  /\ Len(tags) = 2
  /\ tags[2].name = <<"@", "a">>
  /\ tags[2].value = <<" ">>

\* C28 as stated: the final blank line contributes no logical line, so that the
\* tags are those of the body without that line
C28_NoLogicalLine ==
  (pc = "parse_php_doc" /\ EndsInBlankLine(phpdoc) /\ Len(RawLines(phpdoc)) > 1) =>
    /\ tags /= <<>>
    /\ tags = parse_php_doc(WithoutLastLine(phpdoc), stage_line)

-----------------------------------------------------------------------------
\* the number of vertices of a type tree
RECURSIVE TreeSize(_)
RECURSIVE TreeSizeIn(_, _)
TreeSize(t) == IF t = NullVertex THEN 0 ELSE 1 + TreeSizeIn(t.args, Len(t.args))
TreeSizeIn(ts, n) == IF n = 0 THEN 0 ELSE TreeSizeIn(ts, n - 1) + TreeSize(ts[n])

\* the call that began at position p of s and ended as r stayed within the text,
\* and when it gave a tree it went forward by at least one character for every
\* vertex of the tree
InBounds(s, p, r) ==
  /\ p <= r.pos
  /\ r.pos <= Len(s)
  /\ r.v /= NullVertex => (r.pos > p /\ TreeSize(r.v) <= r.pos - p)

\* every turn of the array loop went forward by the two characters of a pair
\* and every turn of the union loop by a bar and the characters of a member
LoopsAdvance(s, simple, array, expr) ==
  /\ array.v /= NullVertex =>
       array.pos - simple.pos = 2 * (TreeSize(array.v) - TreeSize(simple.v))
  /\ expr.v /= NullVertex =>
       expr.pos - array.pos >= TreeSize(expr.v) - TreeSize(array.v)

\* the calls at position p of s that ended as simple, array, expr and nested
CallsInBounds(s, p, simple, array, expr, nested) ==
  /\ InBounds(s, p, simple)
  /\ InBounds(s, p, array)
  /\ InBounds(s, p, expr)
  /\ InBounds(s, p, nested)
  /\ LoopsAdvance(s, simple, array, expr)

\* the characters of the names and the values of the tags
RECURSIVE TotalText(_)
TotalText(tgs) ==
  IF tgs = <<>> THEN 0
  ELSE Len(Head(tgs).name) + Len(Head(tgs).value) + TotalText(Tail(tgs))

\* C29: a call of parse_simple_type, parse_type_array, parse_type_expression
\* or parse_nested_type_rule at any position of the text ends at a position
\* that is not in front of the one it began at nor behind the end of the text;
\* a call that gives a tree has gone forward, by a character or more for every
\* vertex, and every turn of a loop has gone forward; parse_from_type_string
\* ends within the text; parse_php_doc, which reads every character once,
\* returns tags that hold no more characters than the body and one
C29_PositionBounds ==
  /\ pc = "parse_from_type_string" =>
       /\ res.pos <= Len(type_str)
       /\ res.v /= NullVertex => TreeSize(res.v) <= res.pos
       /\ \A p \in 0..Len(type_str) : \A c \in OobChars :
            CallsInBounds(type_str, p, parse_simple_type(type_str, p, Ctx(c)),
                          parse_type_array(type_str, p, Ctx(c)),
                          parse_type_expression(type_str, p, Ctx(c)),
                          parse_nested_type_rule(type_str, p, "tp_tuple", Ctx(c)))
  /\ pc = "parse_php_doc" =>
       /\ Len(tags) <= Len(phpdoc) + 1
       /\ TotalText(tags) <= Len(phpdoc) + 1

C29_Witness ==
  /\ pc = "parse_from_type_string"
  /\ type_str = <<"A", "|", "@", "t", "l", "\\">>
  /\ res.v = Union(ClassRef(<<"A">>), ClassRef(NullClass))
  /\ res.pos = Len(type_str)
  /\ parse_simple_type(type_str, 2, Ctx("A")).pos = Len(type_str)
  /\ parse_simple_type(type_str, 2, Ctx(Nul)).v = NullVertex

====
